---------------------------- MODULE Spec2Model ----------------------------
(***************************************************************************)
(* Model of the scheduling and caching core of fluentxverse-ai:            *)
(*   - the daily lesson scheduler (lesson.scheduler.ts): next-run          *)
(*     computation at the fixed UTC+8 offset, the single-shot timer, the   *)
(*     isRunning flag, startScheduler / stopScheduler / runNow;            *)
(*   - the in-memory Redis-compatible cache (createInMemoryCache): get,    *)
(*     setEx, keys, del, lRange, rPush, lTrim;                             *)
(*   - the cache's clients: initRedis / closeRedis, the retention history  *)
(*     (logRetentionCleanup, getRetentionHistory) and the token ledger     *)
(*     (blacklistToken, isTokenBlacklisted, invalidateUserTokens,          *)
(*     isTokenInvalidatedBySignUpdate), and cacheGetOrSet, over a backing  *)
(*     store that may go down and come back;                               *)
(*   - the database connection (memgraph.ts): initDriver with its retry    *)
(*     loop, initMemgraph, the isInitialized flag;                         *)
(*   - the article reader (fetchArticleContentTool.execute): the tag       *)
(*     stripping, the title and article extraction, the 5000-character cap;*)
(*   - the news fetch chain (fetchNewsTool.execute): NewsAPI, GNews, and   *)
(*     the Google News RSS fallback with its feed parser.                  *)
(*                                                                         *)
(* An instant (JavaScript epoch milliseconds) is kept as a record          *)
(* [d |-> days since 1970-01-01, ms |-> millisecond of that UTC day]: the  *)
(* same number in mixed radix, because epoch milliseconds do not fit the   *)
(* model checker's 32-bit integers.  All arithmetic below is exact to the  *)
(* millisecond.                                                            *)
(***************************************************************************)
EXTENDS Integers, Sequences, FiniteSets, TLC

VARIABLES
    now,               \* the wall clock, Date.now()
    \* ---- lesson.scheduler.ts -------------------------------------------
    timers,            \* pending setTimeout timers: records [id, due]
    schedulerTimeout,  \* the stored handle: a timer id, or NULL
    isRunning,         \* the isRunning flag
    jobs,              \* generateAndSaveLesson executions in flight
    nextTimer,         \* next fresh timer id
    nextJob,           \* next fresh job id
    starting,          \* startScheduler calls suspended at await initMemgraph()
    runNowPending,     \* runNow calls suspended at await initMemgraph()
    stopped,           \* history: stopScheduler returned with no startScheduler
                       \* call in flight, and none was made since
    lastRun,           \* history: outcome of the last timer-driven job
    msUntilNextRun,    \* result of the last probe of getMillisecondsUntilNextRun
    \* ---- createInMemoryCache -------------------------------------------
    store,             \* the Map: key -> [value, expires] or NoEntry
    lastSet,           \* history: per key, the setEx that wrote the present entry
    lastOp,            \* history: the last cache call, its arguments and result
    \* ---- the cache's clients ------------------------------------------
    redisClient,       \* the module's client: NULL, or CLIENT (whose Map is store)
    isConnected,       \* the isConnected flag
    cacheFails,        \* the backing store is down: every call of a client
                       \* method rejects
    trimPending,       \* logRetentionCleanup calls suspended at await rPush(...)
    appended,          \* history: the deletedCounts appended to the present store
    lastHistory,       \* history: the last result of getRetentionHistory
    ledger,            \* history: per token and user id, the last revocation
                       \* written to the present store
    lastCheck,         \* history: the last call of a ledger function, how it ended
    revoked,           \* history: the (userId, tokenIat) pairs reported invalidated
                       \* on the present store
    \* ---- fetchNewsTool -------------------------------------------------
    fetch,             \* the one execute() call: position, inputs, requests, result
    \* ---- cacheGetOrSet -------------------------------------------------
    getOrSet,          \* the one call: position, arguments, the outcomes of its
                       \* fetchFn invocations, result
    \* ---- fetchArticleContentTool ---------------------------------------
    page,              \* the one execute() call: position, url, result
    \* ---- memgraph.ts ---------------------------------------------------
    isInitialized,     \* the isInitialized flag
    initDriver,        \* the one initDriver() call followed step by step
    \* ---- history of the scheduler --------------------------------------
    lastStart,         \* history: the instant the last timer-driven job started
    lastFireSkipped    \* history: the last timer callback found isRunning set
                       \* and returned without doing anything

schedVars == <<timers, schedulerTimeout, isRunning, jobs, nextTimer, nextJob,
               starting, runNowPending, stopped, lastRun>>
cacheVars == <<store, lastSet, lastOp>>
connVars == <<redisClient, isConnected, cacheFails>>
retentionVars == <<trimPending, appended, lastHistory>>
tokenVars == <<ledger, lastCheck, revoked>>
callVars == <<getOrSet, page>>
dbVars == <<isInitialized, initDriver>>
clientVars == <<connVars, retentionVars, tokenVars, fetch, callVars>>
histVars == <<lastStart, lastFireSkipped>>
appVars == <<clientVars, dbVars, histVars>>
vars == <<now, schedVars, msUntilNextRun, cacheVars, appVars>>

NULL == 0

-----------------------------------------------------------------------------
(* Bounds of the model *)

\* timers armed in one behaviour
MaxTimers == 3
\* job executions started in one behaviour
MaxJobs == 2
\* startScheduler calls suspended at the same time
MaxStarting == 1
\* runNow calls suspended at the same time
MaxRunNowPending == 1
\* days the scheduler's clock runs past its first day
MaxDays == 1
\* longest list rPush builds
MaxListLen == 3
\* largest ttl (seconds) given to setEx
MaxTtl == 1
\* days after a month's first day at which the next-run function is probed
ProbeWindow == 1
\* milliseconds that may pass between two clock reads of one synchronous call
MaxClockSkew == 1
\* logRetentionCleanup calls made on one store
MaxAppends == 102
\* logRetentionCleanup calls suspended at the same time
MaxCleanupsInFlight == 1
\* largest maxArticles given to fetchNewsTool
MaxMaxArticles == 2
\* most articles in one NewsAPI or GNews response
MaxArticlesReturned == 2
\* most items in one RSS feed
MaxFeedItems == 3
\* letters in the longest word of a page
MaxWord == 6000
\* largest retries given to initDriver besides the default
MaxRetries == 2
\* half seconds the clock of initDriver runs
MaxDriverTicks == 17

-----------------------------------------------------------------------------
(* Program constants *)

PHT_OFFSET_HOURS == 8
SCHEDULED_HOUR == 3
SCHEDULED_MINUTE == 0

-----------------------------------------------------------------------------
(* Instants: epoch milliseconds as [d, ms] *)

HourMs == 60 * 60 * 1000
MinuteMs == 60 * 1000
DayMs == 24 * HourMs

\* t + k milliseconds (k may be negative); Date arithmetic on getTime()
InstAdd(t, k) ==
    [d |-> t.d + ((t.ms + k) \div DayMs), ms |-> (t.ms + k) % DayMs]

\* a - b in milliseconds (the two instants lie within a few days)
InstDiff(a, b) == (a.d - b.d) * DayMs + (a.ms - b.ms)

InstLT(a, b) == a.d < b.d \/ (a.d = b.d /\ a.ms < b.ms)
InstLE(a, b) == a = b \/ InstLT(a, b)

-----------------------------------------------------------------------------
(* The JavaScript Date calendar (proleptic Gregorian, UTC) *)

\* day number of year-month-day, month 1..12
DaysFromCivil(y, m, d) ==
    LET yy  == IF m <= 2 THEN y - 1 ELSE y
        era == yy \div 400
        yoe == yy - era * 400
        mp  == IF m > 2 THEN m - 3 ELSE m + 9
        doy == ((153 * mp + 2) \div 5) + d - 1
        doe == yoe * 365 + (yoe \div 4) - (yoe \div 100) + doy
    IN  era * 146097 + doe - 719468

\* getUTCFullYear / getUTCMonth (0-based) / getUTCDate of a day number,
\* computed era by era: day of era, year of era, day of year, month
CivilOfMonth(y, m, d) ==
    [year |-> y + (IF m <= 2 THEN 1 ELSE 0), month |-> m - 1, day |-> d]
CivilOfMp(y, doy, mp) ==
    CivilOfMonth(y, IF mp < 10 THEN mp + 3 ELSE mp - 9, doy - ((153 * mp + 2) \div 5) + 1)
CivilOfDoy(y, doy) == CivilOfMp(y, doy, (5 * doy + 2) \div 153)
CivilOfYoe(era, doe, yoe) ==
    CivilOfDoy(yoe + era * 400, doe - (365 * yoe + (yoe \div 4) - (yoe \div 100)))
CivilOfDoe(era, doe) ==
    CivilOfYoe(era, doe,
               (doe - (doe \div 1460) + (doe \div 36524) - (doe \div 146096)) \div 365)
CivilOfEra(era, z) == CivilOfDoe(era, z - era * 146097)
CivilFromDays(z0) == CivilOfEra((z0 + 719468) \div 146097, z0 + 719468)

\* Date.UTC(year, month0, day, hour, minute, 0, 0): the day may overflow the
\* month (MakeDay counts from the first of the month)
DateUTC(year, month0, day, hour, minute) ==
    [d |-> DaysFromCivil(year, month0 + 1, 1) + (day - 1),
     ms |-> hour * HourMs + minute * MinuteMs]

-----------------------------------------------------------------------------
(* lesson.scheduler.ts: next-run computation *)

\* the components of the shifted timestamp phtDate
ComponentsOf(c, ms) ==
    [year |-> c.year, month |-> c.month, day |-> c.day,
     hour |-> ms \div HourMs, minute |-> (ms % HourMs) \div MinuteMs]
ComponentsAt(phtTimestamp) ==
    ComponentsOf(CivilFromDays(phtTimestamp.d), phtTimestamp.ms)

\* t is the clock as read by the function's own new Date()
GetPhilippinesTimeComponents(t) ==
    ComponentsAt(InstAdd(t, PHT_OFFSET_HOURS * HourMs))

\* targetYear / targetMonth / targetDay as first set: today in PHT
TargetToday(pht) == [year |-> pht.year, month |-> pht.month, day |-> pht.day]

\* the "add one day" branch: tempDate = new Date(Date.UTC(y, m, d + 1))
TargetTomorrow(pht) ==
    CivilFromDays(DateUTC(pht.year, pht.month, pht.day + 1, 0, 0).d)

\* mutant: the comparison with the trigger hour is strict
TargetDateStrictHour(pht) ==
    IF pht.hour > SCHEDULED_HOUR THEN TargetTomorrow(pht) ELSE TargetToday(pht)

\* the target date: tomorrow if 3 AM PHT has passed today
TargetDate(pht) ==
    IF pht.hour >= SCHEDULED_HOUR
       \/ (pht.hour = SCHEDULED_HOUR /\ pht.minute >= SCHEDULED_MINUTE)
      THEN TargetTomorrow(pht)
      ELSE TargetToday(pht)

\* targetUTC - now.getTime(), targetUTC being the target date at the
\* scheduled local time minus the offset
MsUntilTarget(t, target) ==
    InstDiff(InstAdd(DateUTC(target.year, target.month, target.day,
                             SCHEDULED_HOUR, SCHEDULED_MINUTE),
                     -(PHT_OFFSET_HOURS * HourMs)),
             t)

\* mutant: the "schedule for tomorrow" branch is lost
GetMillisecondsUntilNextRunNoTomorrow(t, t2) ==
    MsUntilTarget(t, TargetToday(GetPhilippinesTimeComponents(t2)))

\* t is the clock read by getMillisecondsUntilNextRun itself (now), t2 the
\* later read inside getPhilippinesTimeComponents
GetMillisecondsUntilNextRun(t, t2) ==
    MsUntilTarget(t, TargetDate(GetPhilippinesTimeComponents(t2)))

-----------------------------------------------------------------------------
(* lesson.scheduler.ts: the scheduler *)

NoStart == [none |-> TRUE]
TimerRec(id, due) == [id |-> id, due |-> due]
JobRec(id, origin, pc) == [id |-> id, origin |-> origin, pc |-> pc]

\* first UTC day of the scheduler's clock: 2024-02-27, so that the local
\* calendar crosses the leap day and the end of February
StartDay == DaysFromCivil(2024, 2, 27)

\* the instants of a UTC day the clock visits: midnight UTC, the local
\* (UTC+8) midnight, the trigger hour and the millisecond before it
SampleMs ==
    LET localMidnight == (24 - PHT_OFFSET_HOURS) * HourMs
        trigger == localMidnight + SCHEDULED_HOUR * HourMs + SCHEDULED_MINUTE * MinuteMs
    IN  {0, localMidnight, trigger - 1, trigger}

SchedInstants == {[d |-> dd, ms |-> m] : dd \in StartDay..(StartDay + MaxDays), m \in SampleMs}

\* scheduleNextRun(): arm a single-shot timer msUntilNextRun after the
\* setTimeout call and store its handle.  The clock is read at now and, up
\* to MaxClockSkew milliseconds later, inside getPhilippinesTimeComponents;
\* setTimeout follows that second read.
ScheduleNextRun ==
    /\ nextTimer <= MaxTimers
    /\ \E t2 \in {InstAdd(now, skew) : skew \in 0..MaxClockSkew} :
         timers' = timers \cup
             {TimerRec(nextTimer, InstAdd(t2, GetMillisecondsUntilNextRun(now, t2)))}
    /\ schedulerTimeout' = nextTimer
    /\ nextTimer' = nextTimer + 1

\* time passes
Tick ==
    /\ \E t \in SchedInstants : InstLT(now, t) /\ now' = t
    /\ UNCHANGED <<schedVars, msUntilNextRun, appVars, cacheVars>>

\* startScheduler() up to its await initMemgraph()
StartSchedulerCall ==
    /\ starting < MaxStarting
    /\ starting' = starting + 1
    /\ stopped' = FALSE
    /\ UNCHANGED <<now, timers, schedulerTimeout, isRunning, jobs, nextTimer,
                   nextJob, runNowPending, lastRun, msUntilNextRun, appVars, cacheVars>>

\* initMemgraph() has settled: initDriver() returned with isInitialized set,
\* or threw with the flag as it was (the call is followed step by step
\* under SpecDriver)
InitMemgraphSettles(connected) ==
    isInitialized' = (isInitialized \/ connected)

\* mutant: a failed connection ends startScheduler() before the first run
\* is scheduled
StartSchedulerResumeNeedsConnection ==
    /\ starting > 0
    /\ \E connected \in BOOLEAN :
         /\ starting' = starting - 1
         /\ InitMemgraphSettles(connected)
         /\ IF connected THEN ScheduleNextRun
                         ELSE UNCHANGED <<timers, schedulerTimeout, nextTimer>>
    /\ UNCHANGED <<now, isRunning, jobs, nextJob, runNowPending, stopped,
                   lastRun, msUntilNextRun, clientVars, initDriver, histVars,
                   cacheVars>>

\* startScheduler() resumes, initMemgraph() having resolved or thrown (the
\* catch only logs), and schedules the first run
StartSchedulerResume ==
    /\ starting > 0
    /\ \E connected \in BOOLEAN :
         /\ starting' = starting - 1
         /\ InitMemgraphSettles(connected)
         /\ ScheduleNextRun
    /\ UNCHANGED <<now, isRunning, jobs, nextJob, runNowPending, stopped,
                   lastRun, msUntilNextRun, clientVars, initDriver, histVars,
                   cacheVars>>

\* stopScheduler(): clearTimeout of the stored handle, when there is one
StopScheduler ==
    /\ IF schedulerTimeout # NULL
         THEN /\ timers' = {t \in timers : t.id # schedulerTimeout}
              /\ schedulerTimeout' = NULL
         ELSE UNCHANGED <<timers, schedulerTimeout>>
    /\ stopped' = (starting = 0)
    /\ UNCHANGED <<now, isRunning, jobs, nextTimer, nextJob, starting,
                   runNowPending, lastRun, msUntilNextRun, appVars, cacheVars>>

\* a pending timer fires, not before it is due: the callback runs up to the
\* first await inside generateAndSaveLesson(), or returns at once when
\* isRunning is already set
TimerFire(t) ==
    /\ t \in timers
    /\ InstLE(t.due, now)
    /\ timers' = timers \ {t}
    /\ IF ~isRunning
         THEN /\ nextJob <= MaxJobs
              /\ isRunning' = TRUE
              /\ jobs' = jobs \cup {JobRec(nextJob, "timer", "generateLesson")}
              /\ nextJob' = nextJob + 1
              /\ lastStart' = now
         ELSE UNCHANGED <<isRunning, jobs, nextJob, lastStart>>
    /\ lastFireSkipped' = isRunning
    /\ UNCHANGED <<now, schedulerTimeout, nextTimer, starting, runNowPending,
                   stopped, lastRun, msUntilNextRun, clientVars, dbVars, cacheVars>>

\* runNow() up to its await initMemgraph()
RunNowCall ==
    /\ runNowPending < MaxRunNowPending
    /\ runNowPending' = runNowPending + 1
    /\ UNCHANGED <<now, timers, schedulerTimeout, isRunning, jobs, nextTimer,
                   nextJob, starting, stopped, lastRun, msUntilNextRun, appVars, cacheVars>>

\* mutant: runNow() takes the isRunning guard, which only the timer
\* callback releases
RunNowResumeTakesGuard ==
    /\ runNowPending > 0
    /\ nextJob <= MaxJobs
    /\ ~isRunning
    /\ \E connected \in BOOLEAN :
         /\ runNowPending' = runNowPending - 1
         /\ InitMemgraphSettles(connected)
         /\ jobs' = jobs \cup {JobRec(nextJob, "manual", "generateLesson")}
         /\ nextJob' = nextJob + 1
         /\ isRunning' = TRUE
    /\ UNCHANGED <<now, timers, schedulerTimeout, nextTimer,
                   starting, stopped, lastRun, msUntilNextRun, clientVars,
                   initDriver, histVars, cacheVars>>

\* runNow() resumes (a failed initMemgraph() is only logged) and calls
\* generateAndSaveLesson(), which runs up to its first await
RunNowResume ==
    /\ runNowPending > 0
    /\ nextJob <= MaxJobs
    /\ \E connected \in BOOLEAN :
         /\ runNowPending' = runNowPending - 1
         /\ InitMemgraphSettles(connected)
         /\ jobs' = jobs \cup {JobRec(nextJob, "manual", "generateLesson")}
         /\ nextJob' = nextJob + 1
    /\ UNCHANGED <<now, timers, schedulerTimeout, isRunning, nextTimer,
                   starting, stopped, lastRun, msUntilNextRun, clientVars,
                   initDriver, histVars, cacheVars>>

\* generateLesson(topic) resolves: the job goes on to await saveLesson()
GenerateLessonResolves(j) ==
    /\ j \in jobs
    /\ j.pc = "generateLesson"
    /\ jobs' = (jobs \ {j}) \cup {JobRec(j.id, j.origin, "saveLesson")}
    /\ UNCHANGED <<now, timers, schedulerTimeout, isRunning, nextTimer, nextJob,
                   starting, runNowPending, stopped, lastRun, msUntilNextRun, appVars,
                   cacheVars>>

\* mutant: the reset and the re-arm stand after the await inside the try,
\* so a throwing job skips them
TimerCallbackSettlesNoFinally(j, ok) ==
    /\ jobs' = jobs \ {j}
    /\ lastRun' = (IF ok THEN "resolved" ELSE "threw")
    /\ IF ok
         THEN isRunning' = FALSE /\ ScheduleNextRun
         ELSE UNCHANGED <<isRunning, timers, schedulerTimeout, nextTimer>>

\* the timer callback after generateAndSaveLesson() settled: catch logs a
\* rejection, finally resets isRunning and calls scheduleNextRun()
TimerCallbackSettles(j, ok) ==
    /\ jobs' = jobs \ {j}
    /\ lastRun' = (IF ok THEN "resolved" ELSE "threw")
    /\ isRunning' = FALSE
    /\ ScheduleNextRun

\* generateAndSaveLesson() settles: saveLesson() resolved (ok), or
\* generateLesson() or saveLesson() threw and the catch re-threw.  A
\* timer-driven job returns into the timer callback; a manual one into runNow.
JobSettles(j, ok) ==
    /\ j \in jobs
    /\ ok => j.pc = "saveLesson"
    /\ IF j.origin = "timer"
         THEN TimerCallbackSettles(j, ok)
         ELSE /\ jobs' = jobs \ {j}
              /\ UNCHANGED <<timers, schedulerTimeout, isRunning, nextTimer, lastRun>>
    /\ UNCHANGED <<now, nextJob, starting, runNowPending, stopped,
                   msUntilNextRun, appVars, cacheVars>>

-----------------------------------------------------------------------------
(* memgraph.ts: one initDriver() call at a time.  pc is "idle",            *)
(* "getServerInfo" (await driver.getServerInfo()), "sleep" (await          *)
(* sleep(delay)), "returned" or "threw".  startedAt and failedAt are the   *)
(* instants the connection attempts of the call began and failed.          *)

DEFAULT_RETRIES == 5
DEFAULT_DELAY == 2000

NoDriverCall ==
    [pc |-> "idle", retries |-> 0, delay |-> 0, attempt |-> 0,
     wakeAt |-> [d |-> 0, ms |-> 0], startedAt |-> <<>>, failedAt |-> <<>>,
     wasInitialized |-> FALSE]

\* the delays given to initDriver, and the instants its clock visits
Delays == {1000, DEFAULT_DELAY}
DriverInstants == {[d |-> StartDay, ms |-> k * 500] : k \in 0..MaxDriverTicks}

DriverTick ==
    /\ \E t \in DriverInstants : InstLT(now, t) /\ now' = t
    /\ UNCHANGED <<schedVars, msUntilNextRun, cacheVars, appVars>>

\* mutant: the loop makes one attempt more
LoopTestInclusive(attempt, retries) == attempt <= retries

\* while (attempt < retries)
LoopTest(attempt, retries) == attempt < retries

\* the top of the loop: a driver is created and getServerInfo() awaited, or
\* the loop is left and the function throws
LoopTop(c) ==
    IF LoopTest(c.attempt, c.retries)
      THEN [c EXCEPT !.pc = "getServerInfo", !.startedAt = Append(c.startedAt, now)]
      ELSE [c EXCEPT !.pc = "threw"]

\* initDriver(uri, username, password, retries, delay), up to its first await
InitDriverCall(retries, delay) ==
    /\ initDriver.pc \in {"idle", "returned", "threw"}
    /\ initDriver' = LoopTop([NoDriverCall EXCEPT !.retries = retries,
                                                  !.delay = delay,
                                                  !.wasInitialized = isInitialized])
    /\ UNCHANGED <<now, schedVars, msUntilNextRun, cacheVars, clientVars,
                   isInitialized, histVars>>

\* initMemgraph(): initDriver with the default retries and delay
InitMemgraph == InitDriverCall(DEFAULT_RETRIES, DEFAULT_DELAY)

\* getServerInfo() resolves: isInitialized is set and the driver returned
GetServerInfoResolves ==
    /\ initDriver.pc = "getServerInfo"
    /\ isInitialized' = TRUE
    /\ initDriver' = [initDriver EXCEPT !.pc = "returned"]
    /\ UNCHANGED <<now, schedVars, msUntilNextRun, cacheVars, clientVars, histVars>>

\* the catch: attempt++, then sleep(delay) if an attempt is left, else throw
Failed(c) ==
    [c EXCEPT !.attempt = c.attempt + 1,
              !.failedAt = Append(c.failedAt, now),
              !.pc = IF c.attempt + 1 < c.retries THEN "sleep" ELSE "threw",
              !.wakeAt = IF c.attempt + 1 < c.retries THEN InstAdd(now, c.delay)
                                                      ELSE c.wakeAt]

\* getServerInfo() rejects (or neo4j.driver() threw)
GetServerInfoRejects ==
    /\ initDriver.pc = "getServerInfo"
    /\ initDriver' = Failed(initDriver)
    /\ UNCHANGED <<now, schedVars, msUntilNextRun, cacheVars, clientVars,
                   isInitialized, histVars>>

\* the timer of sleep(delay) fires, not before it is due: the loop goes round
SleepEnds ==
    /\ initDriver.pc = "sleep"
    /\ InstLE(initDriver.wakeAt, now)
    /\ initDriver' = LoopTop(initDriver)
    /\ UNCHANGED <<now, schedVars, msUntilNextRun, cacheVars, clientVars,
                   isInitialized, histVars>>

-----------------------------------------------------------------------------
(* getMillisecondsUntilNextRun as a function of the current instant *)

NotProbed == [probed |-> FALSE, ms |-> 0, phtAt |-> [d |-> 0, ms |-> 0]]

\* the UTC days the probe is given: from two days before to ProbeWindow days
\* after the end of a year, of a leap and a common February (2024, 2025,
\* 2100) and of a 30-day month
ProbeDays ==
    LET firsts == {DaysFromCivil(2024, 1, 1), DaysFromCivil(2024, 3, 1),
                   DaysFromCivil(2025, 3, 1), DaysFromCivil(2100, 3, 1),
                   DaysFromCivil(2024, 5, 1)}
    IN  UNION {(f - 2)..(f + ProbeWindow - 1) : f \in firsts}

ProbeMs ==
    LET localMidnight == (24 - PHT_OFFSET_HOURS) * HourMs
        trigger == localMidnight + SCHEDULED_HOUR * HourMs + SCHEDULED_MINUTE * MinuteMs
    IN  {0, localMidnight - 1, localMidnight, trigger - 1, trigger, trigger + 1,
         trigger + HourMs - 1, DayMs - 1}

ProbeInstants == {[d |-> dd, ms |-> m] : dd \in ProbeDays, m \in ProbeMs}

\* one call of getMillisecondsUntilNextRun() at the instant now; phtAt is
\* the instant of the clock read inside getPhilippinesTimeComponents
ProbeNextRun ==
    /\ ~msUntilNextRun.probed
    /\ \E t2 \in {InstAdd(now, skew) : skew \in 0..MaxClockSkew} :
         msUntilNextRun' = [probed |-> TRUE, phtAt |-> t2,
                            ms |-> GetMillisecondsUntilNextRun(now, t2)]
    /\ UNCHANGED <<now, schedVars, cacheVars, appVars>>

-----------------------------------------------------------------------------
(* Strings and JSON.  A string is a sequence of characters.  The JSON texts *)
(* of the model are one-digit numbers and flat arrays of them, with         *)
(* optional blanks between tokens; anything else does not parse.            *)

DigitChars == <<"0", "1", "2", "3", "4", "5", "6", "7", "8", "9">>
IsDigit(c) == \E i \in 1..Len(DigitChars) : DigitChars[i] = c
NumOfChar(c) == (CHOOSE i \in 1..Len(DigitChars) : DigitChars[i] = c) - 1
CharOfNum(n) == DigitChars[n + 1]

IsBlank(c) == c = " "
JSONTokens(s) == SelectSeq(s, LAMBDA c : ~IsBlank(c))

ParseError == [ok |-> FALSE]

\* JSON.parse(s): a number, an array of numbers, or a SyntaxError
JSONParse(s) ==
    LET tk == JSONTokens(s)
        n == Len(tk)
        inner == SubSeq(tk, 2, n - 1)
        m == Len(inner)
    IN  IF n = 1 /\ IsDigit(tk[1])
          THEN [ok |-> TRUE, isArray |-> FALSE, num |-> NumOfChar(tk[1])]
        ELSE IF n >= 2 /\ tk[1] = "[" /\ tk[n] = "]"
                /\ (m = 0 \/ (m % 2 = 1
                              /\ \A i \in 1..m :
                                   IF i % 2 = 1 THEN IsDigit(inner[i])
                                                ELSE inner[i] = ","))
          THEN [ok |-> TRUE, isArray |-> TRUE,
                arr |-> [i \in 1..((m + 1) \div 2) |-> NumOfChar(inner[2 * i - 1])]]
        ELSE ParseError

RECURSIVE JoinNums(_)
JoinNums(arr) ==
    IF arr = <<>> THEN <<>>
    ELSE IF Len(arr) = 1 THEN <<CharOfNum(arr[1])>>
    ELSE <<CharOfNum(arr[1]), ",">> \o JoinNums(Tail(arr))

\* JSON.stringify of a number and of an array of numbers
JSONStringifyNum(n) == <<CharOfNum(n)>>
JSONStringify(arr) == <<"[">> \o JoinNums(arr) \o <<"]">>

\* Array.prototype.slice(start, end) with relative indices
Max(a, b) == IF a >= b THEN a ELSE b
Min(a, b) == IF a <= b THEN a ELSE b
RelIndex(i, len) == IF i < 0 THEN Max(len + i, 0) ELSE Min(i, len)
Slice(arr, start, end) ==
    SubSeq(arr, RelIndex(start, Len(arr)) + 1, RelIndex(end, Len(arr)))
SliceFrom(arr, start) == SubSeq(arr, RelIndex(start, Len(arr)) + 1, Len(arr))

\* new RegExp(pattern.replace(/\*/g, '.*')).test(key): the pattern's letters
\* match themselves, "*" matches any run, and the match may begin anywhere
\* in the key and need not reach its end
RECURSIVE MatchHere(_, _)
MatchHere(p, s) ==
    IF p = <<>> THEN TRUE
    ELSE IF Head(p) = "*"
      THEN \E i \in 0..Len(s) : MatchHere(Tail(p), SubSeq(s, i + 1, Len(s)))
    ELSE s # <<>> /\ Head(s) = Head(p) /\ MatchHere(Tail(p), Tail(s))
RegexTest(p, s) == \E i \in 0..Len(s) : MatchHere(p, SubSeq(s, i + 1, Len(s)))

-----------------------------------------------------------------------------
(* createInMemoryCache *)

LIST_TTL_DAYS == 30

NoEntry == [absent |-> TRUE]
NoSet == [none |-> TRUE]
NoOp == [op |-> "none"]
Null == [isNull |-> TRUE]
Value(v) == [isNull |-> FALSE, value |-> v]
SyntaxError == [isNull |-> FALSE, threw |-> "SyntaxError"]
Rejected == [isNull |-> FALSE, threw |-> "Error"]

CacheKeys == {<<"a">>, <<"b", "a">>}
KeyPatterns == {<<"*">>, <<"a">>, <<"b", "*">>}
\* values given to setEx: not JSON, a JSON number, a JSON array with a blank
SetValues == {<<"x">>, <<"7">>, <<"[", "1", ",", " ", "2", "]">>}
\* values given to rPush: JSON numbers, and a text that is not JSON
PushValues == {<<"3">>, <<"x">>}
\* the start and stop pairs given to lRange and lTrim
RangeArgs == {<<0, -1>>, <<1, -1>>, <<-2, -1>>, <<0, -2>>, <<1, -2>>, <<0, 1>>}

\* the instants the cache's clock visits: the start, and each whole second
\* up to MaxTtl with the millisecond after it
CacheSampleMs == {0} \cup {s * 1000 + e : s \in 1..MaxTtl, e \in {0, 1}}
CacheInstants == {[d |-> StartDay, ms |-> m] : m \in CacheSampleMs}

\* Date.now() + 30 * 24 * 60 * 60 * 1000
ListExpiry(t) == [d |-> t.d + LIST_TTL_DAYS, ms |-> t.ms]

Entry(v, e) == [value |-> v, expires |-> e]
Call(op, k, args, ret) == [op |-> op, key |-> k, args |-> args, ret |-> ret]

CacheInit ==
    /\ store = [k \in CacheKeys |-> NoEntry]
    /\ lastSet = [k \in CacheKeys |-> NoSet]
    /\ lastOp = NoOp

\* a call of a client method while the backing store is down: the promise
\* rejects and the Map is as it was
Rejects(op, k, args) ==
    /\ lastOp' = Call(op, k, args, Rejected)
    /\ UNCHANGED <<store, lastSet>>

\* time passes
CacheTick ==
    /\ \E t \in CacheInstants : InstLT(now, t) /\ now' = t
    /\ UNCHANGED <<schedVars, msUntilNextRun, appVars, cacheVars>>

\* what get returns for the stored entry at time t
GetResult(entry, t) ==
    IF entry = NoEntry THEN Null
    ELSE IF InstLT(entry.expires, t) THEN Null
    ELSE Value(entry.value)

\* get(key): what the method does to the Map, and its result
Get(k) ==
    LET entry == store[k]
    IN  /\ IF entry # NoEntry /\ InstLT(entry.expires, now)
             THEN /\ store' = [store EXCEPT ![k] = NoEntry]
                  /\ lastSet' = [lastSet EXCEPT ![k] = NoSet]
             ELSE UNCHANGED <<store, lastSet>>
        /\ lastOp' = Call("get", k, <<>>, GetResult(entry, now))

\* a direct call of get(key)
CacheGet(k) ==
    /\ Get(k)
    /\ UNCHANGED <<now, schedVars, msUntilNextRun, appVars>>

\* setEx(key, ttl, value): what the method does to the Map
SetEx(k, ttl, v) ==
    /\ store' = [store EXCEPT ![k] = Entry(v, InstAdd(now, ttl * 1000))]
    /\ lastSet' = [lastSet EXCEPT ![k] = [at |-> now, ttl |-> ttl, value |-> v]]
    /\ lastOp' = Call("setEx", k, <<ttl, v>>, Null)

\* a direct call of setEx(key, ttl, value)
CacheSetEx(k, ttl, v) ==
    /\ SetEx(k, ttl, v)
    /\ UNCHANGED <<now, schedVars, msUntilNextRun, appVars>>

\* keys(pattern): the keys of the Map that the pattern's regex matches (the
\* array is kept as a set)
CacheKeysMatching(p) ==
    /\ lastOp' = Call("keys", <<>>, <<p>>,
                      {k \in CacheKeys : store[k] # NoEntry /\ RegexTest(p, k)})
    /\ UNCHANGED <<now, schedVars, msUntilNextRun, appVars, store, lastSet>>

\* del(keys)
CacheDel(ks) ==
    /\ store' = [k \in CacheKeys |-> IF k \in ks THEN NoEntry ELSE store[k]]
    /\ lastSet' = [k \in CacheKeys |-> IF k \in ks THEN NoSet ELSE lastSet[k]]
    /\ lastOp' = Call("del", <<>>, <<ks>>, Null)
    /\ UNCHANGED <<now, schedVars, msUntilNextRun, appVars>>

\* what lRange returns for the stored entry
LRangeResult(entry, start, stop) ==
    IF entry = NoEntry THEN <<>>
    ELSE LET parsed == JSONParse(entry.value)
         IN  IF ~parsed.ok \/ ~parsed.isArray THEN <<>>
             ELSE LET cut == IF stop = -1 THEN SliceFrom(parsed.arr, start)
                             ELSE Slice(parsed.arr, start, stop + 1)
                  IN  [i \in 1..Len(cut) |-> JSONStringifyNum(cut[i])]

\* lRange(key, start, stop): the Map is only read
LRange(k, start, stop) ==
    /\ lastOp' = Call("lRange", k, <<start, stop>>,
                      LRangeResult(store[k], start, stop))
    /\ UNCHANGED <<store, lastSet>>

\* a direct call of lRange(key, start, stop)
CacheLRange(k, start, stop) ==
    /\ LRange(k, start, stop)
    /\ UNCHANGED <<now, schedVars, msUntilNextRun, appVars>>

\* the array rPush appends to: the parsed entry, or [] when the key is
\* absent or its value is no JSON array
ListOf(entry) ==
    IF entry = NoEntry THEN <<>>
    ELSE LET parsed == JSONParse(entry.value)
         IN  IF parsed.ok /\ parsed.isArray THEN parsed.arr ELSE <<>>

\* mutant: the new element is put in front of the list
PushedAtHead(arr, item) == <<item>> \o arr

\* arr.push(item)
Pushed(arr, item) == Append(arr, item)

\* rPush(key, value): JSON.parse(value) throws on a text that is not JSON,
\* before anything is stored
RPush(k, v) ==
    LET arr == ListOf(store[k])
        item == JSONParse(v)
    IN  IF item.ok
          THEN /\ store' = [store EXCEPT ![k] =
                     Entry(JSONStringify(Pushed(arr, item.num)), ListExpiry(now))]
               /\ lastSet' = [lastSet EXCEPT ![k] = NoSet]
               /\ lastOp' = Call("rPush", k, <<v>>, Null)
          ELSE /\ UNCHANGED <<store, lastSet>>
               /\ lastOp' = Call("rPush", k, <<v>>, SyntaxError)

\* a direct call of rPush(key, value), on a list shorter than MaxListLen
CacheRPush(k, v) ==
    /\ Len(ListOf(store[k])) < MaxListLen
    /\ RPush(k, v)
    /\ UNCHANGED <<now, schedVars, msUntilNextRun, appVars>>

\* mutant: the stop === -1 case is missing, every range is slice(start, stop + 1)
TrimmedNoSpecialCase(arr, start, stop) == Slice(arr, start, stop + 1)

\* the survivors of lTrim
Trimmed(arr, start, stop) ==
    IF stop = -1 THEN SliceFrom(arr, start) ELSE Slice(arr, start, stop + 1)

\* mutant: an entry that is no JSON array is replaced by the empty list
LTrimClearsCorrupt(k, start, stop) ==
    LET entry == store[k]
        parsed == IF entry = NoEntry THEN ParseError ELSE JSONParse(entry.value)
        arr == IF parsed.ok /\ parsed.isArray THEN parsed.arr ELSE <<>>
    IN  /\ IF entry # NoEntry
             THEN /\ store' = [store EXCEPT ![k] =
                        Entry(JSONStringify(Trimmed(arr, start, stop)),
                              ListExpiry(now))]
                  /\ lastSet' = [lastSet EXCEPT ![k] = NoSet]
             ELSE UNCHANGED <<store, lastSet>>
        /\ lastOp' = Call("lTrim", k, <<start, stop>>, Null)

\* lTrim(key, start, stop): what the method does to the Map
LTrim(k, start, stop) ==
    LET entry == store[k]
        parsed == IF entry = NoEntry THEN ParseError ELSE JSONParse(entry.value)
    IN  /\ IF parsed.ok /\ parsed.isArray
             THEN /\ store' = [store EXCEPT ![k] =
                        Entry(JSONStringify(Trimmed(parsed.arr, start, stop)),
                              ListExpiry(now))]
                  /\ lastSet' = [lastSet EXCEPT ![k] = NoSet]
             ELSE UNCHANGED <<store, lastSet>>
        /\ lastOp' = Call("lTrim", k, <<start, stop>>, Null)

\* a direct call of lTrim(key, start, stop)
CacheLTrim(k, start, stop) ==
    /\ LTrim(k, start, stop)
    /\ UNCHANGED <<now, schedVars, msUntilNextRun, appVars>>

-----------------------------------------------------------------------------
(* fetchNewsTool.  A text is a sequence of chunks (a tag, a word, a line   *)
(* break); the empty text is <<>>.  A value that may be undefined or null  *)
(* is [some |-> FALSE] or [some |-> TRUE, text |-> t].                     *)

Undefined == [some |-> FALSE, text |-> <<>>]
Text(t) == [some |-> TRUE, text |-> t]
\* JavaScript truthiness of an optional text: undefined, null and "" are falsy
Truthy(v) == v.some /\ v.text # <<>>
\* v || d
OrElse(v, d) == IF Truthy(v) THEN v ELSE d
\* new Date().toISOString()
NowIso == Text(<<"now">>)

\* encodeURIComponent(topic) throws a URIError on a lone surrogate
LoneSurrogate == "\\uD800"
EncodeThrows(topic) == \E i \in 1..Len(topic) : topic[i] = LoneSurrogate
Topics == {<<"x">>, <<"x", LoneSurrogate>>}
\* process.env.NEWSAPI_KEY / GNEWS_KEY: unset, or a key
EnvKeys == {Undefined, Text(<<"key">>)}

\* articles as the two JSON APIs return them: every field set, no field
\* set, and an empty title beside a source object that has no name
RawArticles ==
    {[title |-> Text(<<"T">>), description |-> Text(<<"d">>),
      content |-> Text(<<"c">>), url |-> Text(<<"U">>),
      source |-> Text(<<"S">>), publishedAt |-> Text(<<"P">>),
      author |-> Text(<<"a">>)],
     [title |-> Undefined, description |-> Undefined, content |-> Undefined,
      url |-> Undefined, source |-> Undefined, publishedAt |-> Undefined,
      author |-> Undefined],
     [title |-> Text(<<>>), description |-> Undefined, content |-> Text(<<"c">>),
      url |-> Text(<<"U">>), source |-> Undefined, publishedAt |-> Text(<<"P">>),
      author |-> Undefined]}
ArticleLists == UNION {[1..n -> RawArticles] : n \in 0..MaxArticlesReturned}

\* response bodies of NewsAPI: an error object, or status "ok" with the
\* articles of the page and the total number of matches
NewsApiBodies ==
    {[status |-> "error", articles |-> <<>>, totalResults |-> 0]}
      \cup {[status |-> "ok", articles |-> a, totalResults |-> Len(a) + more] :
               a \in ArticleLists, more \in {0, 5}}
\* response bodies of GNews: an error object without articles, or articles
\* with totalArticles missing, 0 or more than the page holds
GNewsBodies ==
    {[hasArticles |-> FALSE, articles |-> <<>>, totalArticles |-> 0]}
      \cup {[hasArticles |-> TRUE, articles |-> a, totalArticles |-> t] :
               a \in ArticleLists, t \in {0, 7}}

\* the NewsAPI mapping of one article
NormalizeNewsApi(article) ==
    [title |-> OrElse(article.title, Text(<<>>)),
     description |-> OrElse(article.description, Undefined),
     content |-> OrElse(article.content, Undefined),
     url |-> OrElse(article.url, Text(<<>>)),
     source |-> OrElse(article.source, Text(<<"Unknown">>)),
     publishedAt |-> OrElse(article.publishedAt, NowIso),
     author |-> OrElse(article.author, Undefined)]

\* the GNews mapping of one article
NormalizeGNews(article) ==
    [title |-> OrElse(article.title, Text(<<>>)),
     description |-> OrElse(article.description, Undefined),
     content |-> OrElse(article.content, Undefined),
     url |-> OrElse(article.url, Text(<<>>)),
     source |-> OrElse(article.source, Text(<<"Unknown">>)),
     publishedAt |-> OrElse(article.publishedAt, NowIso),
     author |-> Undefined]

Result(articles, totalResults, topic) ==
    [raised |-> FALSE, articles |-> articles, totalResults |-> totalResults,
     query |-> topic]
\* the final return
EmptyResult(topic) == Result(<<>>, 0, topic)
\* the call rejects
Raised == [raised |-> TRUE]

NewsApiResult(data, topic) ==
    Result([i \in 1..Len(data.articles) |-> NormalizeNewsApi(data.articles[i])],
           data.totalResults, topic)
\* data.totalArticles || articles.length
GNewsResult(data, topic) ==
    Result([i \in 1..Len(data.articles) |-> NormalizeGNews(data.articles[i])],
           IF data.totalArticles # 0 THEN data.totalArticles ELSE Len(data.articles),
           topic)

-----------------------------------------------------------------------------
(* The RSS fallback: the regular expressions and the item loop *)

NoMatch == [found |-> FALSE]
LineBreak == "\n"

\* the smallest member of a non-empty set of numbers
Least(S) == CHOOSE x \in S : \A y \in S : x <= y

\* itemRegex.exec(xmlText) from lastIndex pos: the first <item> at or after
\* pos that has an </item> after it, up to the nearest such </item>
ItemCloses(xml, i) == {j \in (i + 1)..Len(xml) : xml[j] = "</item>"}
ItemOpens(xml, pos) ==
    {i \in pos..Len(xml) : xml[i] = "<item>" /\ ItemCloses(xml, i) # {}}
ItemAt(xml, i, j) ==
    [found |-> TRUE, content |-> SubSeq(xml, i + 1, j - 1), lastIndex |-> j + 1]
ItemFrom(xml, i) == ItemAt(xml, i, Least(ItemCloses(xml, i)))
ItemExec(xml, pos) ==
    IF ItemOpens(xml, pos) = {} THEN NoMatch
    ELSE ItemFrom(xml, Least(ItemOpens(xml, pos)))

\* (.*?) between positions p and q: no line break in between
OneLine(s, p, q) == \A i \in (p + 1)..(q - 1) : s[i] # LineBreak

\* /<tag>(.*?)<\/tag>/ on s, the opening tag being one of opens: the
\* leftmost opening tag that a closing tag follows on the same line, and
\* the text up to the nearest such closing tag
TagCloses(s, close, p) ==
    {q \in (p + 1)..Len(s) : s[q] = close /\ OneLine(s, p, q)}
TagOpens(s, opens, close) ==
    {p \in 1..Len(s) : s[p] \in opens /\ TagCloses(s, close, p) # {}}
TagGroupAt(s, close, p) == Text(SubSeq(s, p + 1, Least(TagCloses(s, close, p)) - 1))
TagMatch(s, opens, close) ==
    IF TagOpens(s, opens, close) = {} THEN Undefined
    ELSE TagGroupAt(s, close, Least(TagOpens(s, opens, close)))

\* the first alternative of titleRegex at p: <title><![CDATA[(.*?)]]></title>
CdataCloses(s, p) ==
    {q \in (p + 2)..(Len(s) - 1) :
        s[q] = "]]>" /\ s[q + 1] = "</title>" /\ OneLine(s, p + 1, q)}
CdataAt(s, p) ==
    p + 1 <= Len(s) /\ s[p + 1] = "<![CDATA[" /\ CdataCloses(s, p) # {}
\* the positions at which titleRegex matches
TitleOpens(s) ==
    {p \in 1..Len(s) :
        s[p] = "<title>" /\ (CdataAt(s, p) \/ TagCloses(s, "</title>", p) # {})}
\* titleMatch?.[1] || titleMatch?.[2] at the leftmost match p: the first
\* alternative is tried first, and only the group of the alternative that
\* matched is set
TitleAt(s, p) ==
    IF CdataAt(s, p) THEN Text(SubSeq(s, p + 2, Least(CdataCloses(s, p)) - 1))
    ELSE TagGroupAt(s, "</title>", p)
TitleMatch(s) ==
    IF TitleOpens(s) = {} THEN Undefined ELSE TitleAt(s, Least(TitleOpens(s)))

SourceOpens == {"<source>", "<source url>"}

\* the fields read from one item's content
ItemTitle(c) == OrElse(TitleMatch(c), Text(<<>>))
ItemUrl(c) == OrElse(TagMatch(c, {"<link>"}, "</link>"), Text(<<>>))
ItemPublishedAt(c) == OrElse(TagMatch(c, {"<pubDate>"}, "</pubDate>"), NowIso)
ItemSource(c) == OrElse(TagMatch(c, SourceOpens, "</source>"), Text(<<"Google News">>))
ItemArticle(c) ==
    [title |-> ItemTitle(c), description |-> Undefined, content |-> Undefined,
     url |-> ItemUrl(c), source |-> ItemSource(c),
     publishedAt |-> ItemPublishedAt(c), author |-> Undefined]

\* if (title && url)
ItemQualifies(c) == Truthy(ItemTitle(c)) /\ Truthy(ItemUrl(c))

\* mutant: the loop does not test count < maxArticles
LoopGoesOnIgnoringMax(m, count, maxArticles) == m.found

\* the while condition: (match = itemRegex.exec(xmlText)) !== null
\* && count < maxArticles
LoopGoesOn(m, count, maxArticles) == m.found /\ count < maxArticles

\* the item loop from lastIndex pos on: the articles pushed, and the number
\* of items the loop body examined (count is the number of articles)
RECURSIVE ItemLoop(_, _, _, _, _)
ItemLoopBody(xml, m, articles, examined, maxArticles) ==
    ItemLoop(xml, m.lastIndex,
             IF ItemQualifies(m.content)
               THEN Append(articles, ItemArticle(m.content)) ELSE articles,
             examined + 1, maxArticles)
ItemLoopTest(xml, m, articles, examined, maxArticles) ==
    IF LoopGoesOn(m, Len(articles), maxArticles)
      THEN ItemLoopBody(xml, m, articles, examined, maxArticles)
    ELSE [articles |-> articles, examined |-> examined]
ItemLoop(xml, pos, articles, examined, maxArticles) ==
    ItemLoopTest(xml, ItemExec(xml, pos), articles, examined, maxArticles)

ParseFeed(xmlText, maxArticles) == ItemLoop(xmlText, 1, <<>>, 0, maxArticles)

\* totalResults: articles.length
RssResult(parsed, topic) == Result(parsed.articles, Len(parsed.articles), topic)

-----------------------------------------------------------------------------
(* The feeds given to the RSS fallback.  An item is described by what it   *)
(* holds; item i of a feed has the title "T i" and the link "L i".         *)

Item(title, link, pubDate, source) ==
    [title |-> title, link |-> link, pubDate |-> pubDate, source |-> source]
\* a well-formed item, one with a CDATA title, one without a link, one
\* without a title, one with neither
ItemKinds ==
    {Item("plain", TRUE, TRUE, TRUE), Item("cdata", TRUE, FALSE, FALSE),
     Item("plain", FALSE, TRUE, TRUE), Item("none", TRUE, FALSE, FALSE),
     Item("none", FALSE, TRUE, FALSE)}
ItemLists == UNION {[1..n -> ItemKinds] : n \in 0..MaxFeedItems}

RenderTitle(item, i) ==
    IF item.title = "plain"
      THEN <<"<title>", "T", CharOfNum(i), "</title>", LineBreak>>
    ELSE IF item.title = "cdata"
      THEN <<"<title>", "<![CDATA[", "T", CharOfNum(i), "]]>", "</title>", LineBreak>>
    ELSE <<>>
RenderLink(item, i) ==
    IF item.link THEN <<"<link>", "L", CharOfNum(i), "</link>", LineBreak>> ELSE <<>>
RenderPubDate(item) ==
    IF item.pubDate THEN <<"<pubDate>", "D", "</pubDate>", LineBreak>> ELSE <<>>
RenderSource(item) ==
    IF item.source THEN <<"<source url>", "S", "</source>", LineBreak>> ELSE <<>>
RenderItem(item, i) ==
    <<"<item>", LineBreak>> \o RenderTitle(item, i) \o RenderLink(item, i)
      \o RenderPubDate(item) \o RenderSource(item) \o <<"</item>", LineBreak>>
RECURSIVE RenderItems(_, _)
RenderItems(items, i) ==
    IF i > Len(items) THEN <<>>
    ELSE RenderItem(items[i], i) \o RenderItems(items, i + 1)
RenderFeed(items) ==
    <<"<rss>", "<channel>", "<title>", "Feed", "</title>", LineBreak>>
      \o RenderItems(items, 1) \o <<"</channel>", "</rss>">>

\* what response.text() yields: a feed, or a page that is no feed
FeedBodies ==
    {[items |-> it, xmlText |-> RenderFeed(it)] : it \in ItemLists}
      \cup {[items |-> <<>>, xmlText |-> <<"<html>", "error", "</html>">>]}

-----------------------------------------------------------------------------
(* fetchNewsTool.execute: one call.  status[p] is "untried", "skipped" (no *)
(* credential), "threw" (URIError before the request), "pending",          *)
(* "network" (fetch rejected), "parse" (json() or text() rejected),        *)
(* "refused" (the body lacks the success signal) or "ok".  bodies[p] is    *)
(* the body received from p (of a feed: the items it was rendered from),   *)
(* and examined the number of feed items the item loop went through.       *)

Providers == {"A", "B", "C"}
NoData == [none |-> TRUE]

FetchIdle ==
    [pc |-> "idle", provider |-> "-", topic |-> <<>>, maxArticles |-> 0,
     newsApiKey |-> Undefined, gnewsKey |-> Undefined,
     requests |-> <<>>, pending |-> {},
     status |-> [p \in Providers |-> "untried"],
     bodies |-> [p \in Providers |-> NoData],
     examined |-> 0, result |-> NoData]

Marked(f, p, st) == [f EXCEPT !.status[p] = st]
\* await fetch(url): the request is sent
Issue(f, p) ==
    [f EXCEPT !.pc = "fetch", !.provider = p, !.requests = Append(@, p),
              !.pending = @ \cup {p}, !.status[p] = "pending"]
\* return
Finish(f, r) == [f EXCEPT !.pc = "done", !.provider = "-", !.result = r]
\* the request of the current provider is over
Settled(f, st) ==
    [f EXCEPT !.status[f.provider] = st, !.pending = @ \ {f.provider}]

\* Option 3, the RSS feed; a URIError is caught and the final return follows
EnterC(f) ==
    IF EncodeThrows(f.topic)
      THEN Finish(Marked(f, "C", "threw"), EmptyResult(f.topic))
    ELSE Issue(f, "C")

\* mutant: GNews is requested without a credential
EnterBIgnoresKey(f) ==
    IF EncodeThrows(f.topic) THEN EnterC(Marked(f, "B", "threw"))
    ELSE Issue(f, "B")

\* Option 2, GNews: if (gnewsKey) { try { await fetch(...
EnterB(f) ==
    IF ~Truthy(f.gnewsKey) THEN EnterC(Marked(f, "B", "skipped"))
    ELSE IF EncodeThrows(f.topic) THEN EnterC(Marked(f, "B", "threw"))
    ELSE Issue(f, "B")

\* Option 1, NewsAPI: if (newsApiKey) { try { await fetch(...
EnterA(f) ==
    IF ~Truthy(f.newsApiKey) THEN EnterB(Marked(f, "A", "skipped"))
    ELSE IF EncodeThrows(f.topic) THEN EnterB(Marked(f, "A", "threw"))
    ELSE Issue(f, "A")

\* mutant: the RSS block has no catch
AfterFailureUncaught(f, p) ==
    IF p = "A" THEN EnterB(f)
    ELSE IF p = "B" THEN EnterC(f)
    ELSE Finish(f, Raised)

\* after the catch of provider p, or after its if without a return
AfterFailure(f, p) ==
    IF p = "A" THEN EnterB(f)
    ELSE IF p = "B" THEN EnterC(f)
    ELSE Finish(f, EmptyResult(f.topic))

Fails(f, st) == AfterFailure(Settled(f, st), f.provider)
Succeeds(f, r) == Finish(Settled(f, "ok"), r)
\* await response.json() or response.text() resolves with data
Received(f, data) == [f EXCEPT !.bodies[f.provider] = data]

\* execute({context: {topic, maxArticles}}) with the environment's keys
FetchNewsCall(topic, maxArticles, newsApiKey, gnewsKey) ==
    /\ fetch.pc = "idle"
    /\ fetch' = EnterA([FetchIdle EXCEPT !.topic = topic,
                                         !.maxArticles = maxArticles,
                                         !.newsApiKey = newsApiKey,
                                         !.gnewsKey = gnewsKey])
    /\ UNCHANGED <<now, schedVars, msUntilNextRun, cacheVars, connVars,
                   retentionVars, tokenVars, callVars,
                   dbVars, histVars>>

\* await fetch(...) resolves; response.json() or response.text() is called
ResponseArrives ==
    /\ fetch.pc = "fetch"
    /\ fetch' = [fetch EXCEPT !.pc = "body"]
    /\ UNCHANGED <<now, schedVars, msUntilNextRun, cacheVars, connVars,
                   retentionVars, tokenVars, callVars,
                   dbVars, histVars>>

\* await fetch(...) rejects (network failure)
FetchRejects ==
    /\ fetch.pc = "fetch"
    /\ fetch' = Fails(fetch, "network")
    /\ UNCHANGED <<now, schedVars, msUntilNextRun, cacheVars, connVars,
                   retentionVars, tokenVars, callVars,
                   dbVars, histVars>>

\* await response.json() or response.text() rejects (the body is no JSON,
\* or the connection breaks)
BodyRejects ==
    /\ fetch.pc = "body"
    /\ fetch' = Fails(fetch, "parse")
    /\ UNCHANGED <<now, schedVars, msUntilNextRun, cacheVars, connVars,
                   retentionVars, tokenVars, callVars,
                   dbVars, histVars>>

\* mutant: a NewsAPI page without articles falls through to GNews
NewsApiBodyArrivesFallsOnEmpty(data) ==
    /\ fetch.pc = "body" /\ fetch.provider = "A"
    /\ fetch' = IF data.status = "ok" /\ data.articles # <<>>
                  THEN Succeeds(Received(fetch, data),
                                NewsApiResult(data, fetch.topic))
                  ELSE Fails(Received(fetch, data), "refused")
    /\ UNCHANGED <<now, schedVars, msUntilNextRun, cacheVars, connVars,
                   retentionVars, tokenVars, callVars,
                   dbVars, histVars>>

\* the NewsAPI body is parsed: if (data.status === "ok") return ...
NewsApiBodyArrives(data) ==
    /\ fetch.pc = "body" /\ fetch.provider = "A"
    /\ fetch' = IF data.status = "ok"
                  THEN Succeeds(Received(fetch, data),
                                NewsApiResult(data, fetch.topic))
                  ELSE Fails(Received(fetch, data), "refused")
    /\ UNCHANGED <<now, schedVars, msUntilNextRun, cacheVars, connVars,
                   retentionVars, tokenVars, callVars,
                   dbVars, histVars>>

\* the GNews body is parsed: if (data.articles) return ...
GNewsBodyArrives(data) ==
    /\ fetch.pc = "body" /\ fetch.provider = "B"
    /\ fetch' = IF data.hasArticles
                  THEN Succeeds(Received(fetch, data),
                                GNewsResult(data, fetch.topic))
                  ELSE Fails(Received(fetch, data), "refused")
    /\ UNCHANGED <<now, schedVars, msUntilNextRun, cacheVars, connVars,
                   retentionVars, tokenVars, callVars,
                   dbVars, histVars>>

\* the feed text is read: the item loop runs and its articles are returned
FeedArrives(feed) ==
    /\ fetch.pc = "body" /\ fetch.provider = "C"
    /\ fetch' = Succeeds(
          [Received(fetch, [items |-> feed.items]) EXCEPT
              !.examined = ParseFeed(feed.xmlText, fetch.maxArticles).examined],
          RssResult(ParseFeed(feed.xmlText, fetch.maxArticles), fetch.topic))
    /\ UNCHANGED <<now, schedVars, msUntilNextRun, cacheVars, connVars,
                   retentionVars, tokenVars, callVars,
                   dbVars, histVars>>

-----------------------------------------------------------------------------
(* fetchArticleContentTool.  An HTML text is a sequence of tokens: a tag,  *)
(* a word of n letters, a run of n blanks, or a line break; its length in  *)
(* characters is the sum of its tokens' (a tag's is not needed: tags are   *)
(* gone before the text is cut).                                           *)

CONTENT_CAP == 5000

Tag(name) == [t |-> "tag", name |-> name, n |-> 0]
Word(n) == [t |-> "word", name |-> "x", n |-> n]
Blanks(n) == [t |-> "space", name |-> " ", n |-> n]
NewLine == [t |-> "space", name |-> LineBreak, n |-> 1]

\* the positions from pos on where a token of the set stands
Places(s, pos, tokens) == {i \in pos..Len(s) : s[i] \in tokens}
\* the opening tags from pos on that a closing tag follows
BlockOpens(s, pos, opens, close) ==
    {i \in Places(s, pos, opens) : Places(s, i + 1, {close}) # {}}
BlockEnd(s, i, close) == Least(Places(s, i + 1, {close}))

\* .replace(/<x[^>]*>[\s\S]*?<\/x>/gi, ""): from left to right, each opening
\* tag that a closing tag follows goes with everything up to the nearest one
RECURSIVE StripBlocks(_, _, _, _)
StripBlocksFrom(s, pos, opens, close, i) ==
    SubSeq(s, pos, i - 1) \o StripBlocks(s, BlockEnd(s, i, close) + 1, opens, close)
StripBlocks(s, pos, opens, close) ==
    IF BlockOpens(s, pos, opens, close) = {} THEN SubSeq(s, pos, Len(s))
    ELSE StripBlocksFrom(s, pos, opens, close, Least(BlockOpens(s, pos, opens, close)))

Opens(x) == {Tag("<" \o x \o ">"), Tag("<" \o x \o " class>")}
Closes(x) == Tag("</" \o x \o ">")
Strip(s, x) == StripBlocks(s, 1, Opens(x), Closes(x))

\* the six removals, in the order of the code
Stripped(html) ==
    Strip(Strip(Strip(Strip(Strip(Strip(html, "script"), "style"), "nav"),
                      "header"), "footer"), "aside")

\* html.match(/<title[^>]*>(.*?)<\/title>/i)?.[1] || "": the first opening
\* tag with the closing tag after it on the same line
TitleStarts(s) ==
    {i \in BlockOpens(s, 1, Opens("title"), Closes("title")) :
        \A k \in (i + 1)..(BlockEnd(s, i, Closes("title")) - 1) : s[k] # NewLine}
PageTitleAt(s, i) == SubSeq(s, i + 1, BlockEnd(s, i, Closes("title")) - 1)
PageTitle(s) ==
    IF TitleStarts(s) = {} THEN <<>> ELSE PageTitleAt(s, Least(TitleStarts(s)))

\* content.match(/<article[^>]*>([\s\S]*?)<\/article>/i): the group, used
\* when there is a match and the group is not empty
ArticleStarts(s) == BlockOpens(s, 1, Opens("article"), Closes("article"))
ArticleGroupAt(s, i) == SubSeq(s, i + 1, BlockEnd(s, i, Closes("article")) - 1)
ArticleOr(s) ==
    IF ArticleStarts(s) # {} /\ ArticleGroupAt(s, Least(ArticleStarts(s))) # <<>>
      THEN ArticleGroupAt(s, Least(ArticleStarts(s)))
      ELSE s

\* .replace(/<[^>]+>/g, " ")
TagsToBlanks(s) == [i \in 1..Len(s) |-> IF s[i].t = "tag" THEN Blanks(1) ELSE s[i]]

\* .replace(/\s+/g, " "): each run of white space becomes one blank
RECURSIVE Collapsed(_)
Collapsed(s) ==
    IF s = <<>> THEN <<>>
    ELSE IF Head(s).t # "space" THEN <<Head(s)>> \o Collapsed(Tail(s))
    ELSE IF Len(s) > 1 /\ s[2].t = "space" THEN Collapsed(Tail(s))
    ELSE <<Blanks(1)>> \o Collapsed(Tail(s))

\* .trim()
Trim(s) ==
    SubSeq(s, IF s # <<>> /\ s[1].t = "space" THEN 2 ELSE 1,
              IF s # <<>> /\ s[Len(s)].t = "space" THEN Len(s) - 1 ELSE Len(s))

\* the length of a text in characters
RECURSIVE Chars(_)
Chars(s) == IF s = <<>> THEN 0 ELSE Head(s).n + Chars(Tail(s))

\* mutant: the text is not cut
SliceCharsKeepsAll(s, k) == s

\* .slice(0, k): the first k characters
RECURSIVE SliceChars(_, _)
SliceChars(s, k) ==
    IF s = <<>> \/ k <= 0 THEN <<>>
    ELSE IF Head(s).n <= k THEN <<Head(s)>> \o SliceChars(Tail(s), k - Head(s).n)
    ELSE <<[Head(s) EXCEPT !.n = k]>>

\* the content extracted from html
Extracted(html) ==
    SliceChars(Trim(Collapsed(TagsToBlanks(ArticleOr(Stripped(html))))), CONTENT_CAP)

\* what fetch() or response.text() rejects with: an Error with a message,
\* an Error with the empty message, a value that is no Error
ThrownValues ==
    {[isError |-> TRUE, message |-> <<"fetch failed">>],
     [isError |-> TRUE, message |-> <<>>],
     [isError |-> FALSE, message |-> <<>>]}
\* error instanceof Error ? error.message : "Failed to fetch article"
ErrorText(error) ==
    IF error.isError THEN error.message ELSE <<"Failed to fetch article">>

Urls == {<<"u1">>, <<"u2">>}

\* the pages served: an optional title (one of them broken over two
\* lines), an optional block to strip (one of them never closed), and a
\* body of words in paragraphs or in an article element
PageHeads ==
    {<<>>,
     <<Tag("<title>"), Word(5), Tag("</title>")>>,
     <<Tag("<title>"), NewLine, Word(5), Tag("</title>")>>}
PageBlocks ==
    {<<>>,
     <<Tag("<script>"), Word(MaxWord), Tag("</script>")>>,
     <<Tag("<nav class>"), Word(3), Tag("</nav>")>>,
     <<Tag("<style>"), Word(7)>>}
PageBodies ==
    {<<>>, <<Tag("<article>"), Tag("</article>"), Word(MaxWord)>>}
      \cup {<<Tag("<p>"), Word(n), Tag("</p>"), Blanks(3), NewLine, Word(20)>> :
                n \in {10, CONTENT_CAP - 10}}
      \cup {<<Word(8), Tag("<article>"), Blanks(2), Word(n), Tag("</article>")>> :
                n \in {10, CONTENT_CAP, MaxWord}}
HtmlPages == {h \o b \o c : h \in PageHeads, b \in PageBlocks, c \in PageBodies}

PageIdle ==
    [pc |-> "idle", url |-> <<>>, html |-> <<>>, thrown |-> NoData, result |-> NoData]

ContentResult(title, content, url) ==
    [title |-> title, content |-> content, url |-> url, success |-> TRUE,
     error |-> Undefined]
\* the result built in the catch
FailureResult(url, error) ==
    [title |-> <<>>, content |-> <<>>, url |-> url, success |-> FALSE,
     error |-> Text(ErrorText(error))]

\* execute({context: {url}}), up to await fetch(url, ...)
FetchFullContentCall(url) ==
    /\ page.pc \in {"idle", "done"}
    /\ page' = [PageIdle EXCEPT !.pc = "fetch", !.url = url]
    /\ UNCHANGED <<now, schedVars, msUntilNextRun, cacheVars, connVars,
                   retentionVars, tokenVars, fetch, getOrSet,
                   dbVars, histVars>>

\* fetch resolves with a response: the call goes on to await response.text()
PageResponseArrives ==
    /\ page.pc = "fetch"
    /\ page' = [page EXCEPT !.pc = "text"]
    /\ UNCHANGED <<now, schedVars, msUntilNextRun, cacheVars, connVars,
                   retentionVars, tokenVars, fetch, getOrSet,
                   dbVars, histVars>>

\* fetch or response.text() rejects: the catch builds the failure result
PageRejects(error) ==
    /\ page.pc \in {"fetch", "text"}
    /\ page' = [page EXCEPT !.pc = "done", !.thrown = error,
                            !.result = FailureResult(page.url, error)]
    /\ UNCHANGED <<now, schedVars, msUntilNextRun, cacheVars, connVars,
                   retentionVars, tokenVars, fetch, getOrSet,
                   dbVars, histVars>>

\* response.text() resolves with html: title and content are extracted and
\* returned
HtmlArrives(html) ==
    /\ page.pc = "text"
    /\ page' = [page EXCEPT !.pc = "done", !.html = html,
                            !.result = ContentResult(PageTitle(html), Extracted(html),
                                                     page.url)]
    /\ UNCHANGED <<now, schedVars, msUntilNextRun, cacheVars, connVars,
                   retentionVars, tokenVars, fetch, getOrSet,
                   dbVars, histVars>>

-----------------------------------------------------------------------------
(* The cache's clients.  The module holds one client; its Map is store.    *)
(* A key is the sequence of its parts: the literal prefix, then the id.    *)

CLIENT == 1
HISTORY_KEY == <<"notifications:cleanup:history">>
HISTORY_CAP == 100
SIGN_UPDATE_TTL == 86400

TokenIds == {<<"t", "1">>, <<"t", "2">>}
UserIds == {<<"u", "1">>}
BlacklistKey(tokenId) == <<"token:blacklist:">> \o tokenId
SignUpdateKey(userId) == <<"user:signUpdate:">> \o userId
\* the keys the clients use
AppKeys ==
    {HISTORY_KEY} \cup {BlacklistKey(t) : t \in TokenIds}
                  \cup {SignUpdateKey(u) : u \in UserIds}

NoHistory == [called |-> FALSE]
NoCheck == [fn |-> "none"]
NoRecord == [none |-> TRUE]
EmptyLedger == [id \in TokenIds \cup UserIds |-> NoRecord]

IsRedisConnected == isConnected /\ redisClient # NULL

\* time passes, to one of the given instants
ClockAdvances(instants) ==
    /\ \E t \in instants : InstLT(now, t) /\ now' = t
    /\ UNCHANGED <<schedVars, msUntilNextRun, cacheVars, appVars>>

\* initRedis(): a new client with an empty Map replaces the module's client
\* (createInMemoryCache does not throw)
InitRedis ==
    /\ redisClient' = CLIENT
    /\ isConnected' = TRUE
    /\ store' = [k \in DOMAIN store |-> NoEntry]
    /\ lastSet' = [k \in DOMAIN store |-> NoSet]
    /\ lastOp' = NoOp
    /\ appended' = <<>>
    /\ lastHistory' = NoHistory
    /\ ledger' = EmptyLedger
    /\ lastCheck' = NoCheck
    /\ revoked' = {}
    /\ UNCHANGED <<now, schedVars, msUntilNextRun, cacheFails, trimPending, fetch, callVars,
                   dbVars, histVars>>

\* closeRedis(): the client, and its Map with it, is dropped
CloseRedis ==
    /\ redisClient # NULL
    /\ redisClient' = NULL
    /\ isConnected' = FALSE
    /\ store' = [k \in DOMAIN store |-> NoEntry]
    /\ lastSet' = [k \in DOMAIN store |-> NoSet]
    /\ lastOp' = NoOp
    /\ appended' = <<>>
    /\ lastHistory' = NoHistory
    /\ ledger' = EmptyLedger
    /\ lastCheck' = NoCheck
    /\ revoked' = {}
    /\ UNCHANGED <<now, schedVars, msUntilNextRun, cacheFails, trimPending, fetch, callVars,
                   dbVars, histVars>>

-----------------------------------------------------------------------------
(* cacheGetOrSet: one call at a time.  pc is "idle", "direct" (not         *)
(* connected: the call returns the promise of fetchFn()), "fetchFn" (await *)
(* fetchFn() inside the try), "fallback" (the catch returns the promise of *)
(* fetchFn()) or "done".  calls counts the invocations of fetchFn,         *)
(* outcomes lists how they settled, cacheThrew tells that a cache step of  *)
(* the call threw.  A value is what JSON.parse returns.                    *)

Rejection == [rejected |-> TRUE]
\* what fetchFn resolves to
FetchValues == {[ok |-> TRUE, isArray |-> FALSE, num |-> n] : n \in {1, 2}}
FetchOutcomes == FetchValues \cup {Rejection}

\* JSON.stringify(value)
Serialized(v) == IF v.isArray THEN JSONStringify(v.arr) ELSE JSONStringifyNum(v.num)

GetOrSetIdle ==
    [pc |-> "idle", key |-> <<>>, ttlSeconds |-> 0, calls |-> 0,
     outcomes |-> <<>>, cacheThrew |-> FALSE, hit |-> FALSE, result |-> NoData]

Entered(key, ttlSeconds) ==
    [GetOrSetIdle EXCEPT !.key = key, !.ttlSeconds = ttlSeconds]

\* fetchFn() is invoked and awaited at pc
Invoked(g, pc) == [g EXCEPT !.pc = pc, !.calls = g.calls + 1]

\* the call settles with r
Returned(g, r) == [g EXCEPT !.pc = "done", !.result = r]

\* mutant: the catch lets the error go
CaughtRethrows(g, byCache) ==
    Returned([g EXCEPT !.cacheThrew = g.cacheThrew \/ byCache], Rejection)

\* the catch: warn, then return fetchFn()
Caught(g, byCache) ==
    Invoked([g EXCEPT !.cacheThrew = g.cacheThrew \/ byCache], "fallback")

\* if (cached): null and "" are falsy
Cached(cached) == cached # Null /\ cached.value # <<>>

\* the call after get(key) returned cached: a hit is parsed and returned
\* (a text that does not parse throws into the catch), a miss goes on to
\* fetchFn()
AfterGet(g, cached) ==
    IF Cached(cached)
      THEN IF JSONParse(cached.value).ok
             THEN Returned([g EXCEPT !.hit = TRUE], JSONParse(cached.value))
             ELSE Caught(g, TRUE)
      ELSE Invoked(g, "fetchFn")

\* cacheGetOrSet(key, ttlSeconds, fetchFn), up to its first await of fetchFn
CacheGetOrSetCall(key, ttlSeconds) ==
    /\ getOrSet.pc \in {"idle", "done"}
    /\ IF ~IsRedisConnected
         THEN /\ getOrSet' = Invoked(Entered(key, ttlSeconds), "direct")
              /\ UNCHANGED cacheVars
         ELSE IF cacheFails
           THEN /\ Rejects("get", key, <<>>)
                /\ getOrSet' = Caught(Entered(key, ttlSeconds), TRUE)
         ELSE /\ Get(key)
              /\ getOrSet' = AfterGet(Entered(key, ttlSeconds),
                                      GetResult(store[key], now))
    /\ UNCHANGED <<now, schedVars, msUntilNextRun, connVars, retentionVars,
                   tokenVars, fetch, page,
                   dbVars, histVars>>

\* the awaited fetchFn() settles.  Outside the try its outcome is the
\* call's.  Inside the try a rejection goes to the catch, and a value is
\* written with setEx (a TypeError when the client was closed meanwhile)
\* and returned.
FetchFnSettles(outcome) ==
    /\ getOrSet.pc \in {"direct", "fetchFn", "fallback"}
    /\ LET g == [getOrSet EXCEPT !.outcomes = Append(getOrSet.outcomes, outcome)]
       IN  IF g.pc # "fetchFn"
             THEN /\ getOrSet' = Returned(g, outcome)
                  /\ UNCHANGED cacheVars
           ELSE IF outcome = Rejection
             THEN /\ getOrSet' = Caught(g, FALSE)
                  /\ UNCHANGED cacheVars
           ELSE IF redisClient = NULL
             THEN /\ getOrSet' = Caught(g, TRUE)
                  /\ UNCHANGED cacheVars
           ELSE IF cacheFails
             THEN /\ getOrSet' = Caught(g, TRUE)
                  /\ Rejects("setEx", g.key, <<g.ttlSeconds, Serialized(outcome)>>)
           ELSE /\ getOrSet' = Returned(g, outcome)
                /\ SetEx(g.key, g.ttlSeconds, Serialized(outcome))
    /\ UNCHANGED <<now, schedVars, msUntilNextRun, connVars, retentionVars,
                   tokenVars, fetch, page,
                   dbVars, histVars>>

-----------------------------------------------------------------------------
(* Retention history.  An entry {timestamp, deletedCount} is kept as its   *)
(* deletedCount, a one-digit number; a run of calls passes consecutive     *)
(* counts (modulo 10), so that neighbouring entries differ.                *)

\* JSON.stringify(entry)
EntryText(deletedCount) == JSONStringifyNum(deletedCount)

\* the deletedCounts the next call may pass
NextCounts ==
    IF appended = <<>> THEN 0..9
    ELSE {(appended[Len(appended)] + 1) % 10}

RetentionInstants ==
    {[d |-> StartDay, ms |-> 0], [d |-> StartDay + LIST_TTL_DAYS + 1, ms |-> 0]}
RetentionTick == ClockAdvances(RetentionInstants)

\* logRetentionCleanup(deletedCount), up to its first await: rPush has run,
\* or has rejected and the catch has logged it
LogRetentionCleanupCall(deletedCount) ==
    /\ trimPending < MaxCleanupsInFlight
    /\ Len(appended) < MaxAppends
    /\ IF IsRedisConnected /\ ~cacheFails
         THEN /\ RPush(HISTORY_KEY, EntryText(deletedCount))
              /\ appended' = Append(appended, deletedCount)
              /\ trimPending' = trimPending + 1
              /\ lastHistory' = NoHistory
         ELSE IF IsRedisConnected
           THEN /\ Rejects("rPush", HISTORY_KEY, <<EntryText(deletedCount)>>)
                /\ UNCHANGED retentionVars
         ELSE UNCHANGED <<cacheVars, retentionVars>>
    /\ UNCHANGED <<now, schedVars, msUntilNextRun, connVars, tokenVars, fetch, callVars,
                   dbVars, histVars>>

\* mutant: the trim keeps the first HISTORY_CAP entries
LogRetentionCleanupResumeKeepsOldest ==
    /\ trimPending > 0
    /\ trimPending' = trimPending - 1
    /\ IF redisClient # NULL /\ ~cacheFails
         THEN LTrim(HISTORY_KEY, 0, HISTORY_CAP - 1)
         ELSE IF redisClient # NULL
           THEN Rejects("lTrim", HISTORY_KEY, <<0, HISTORY_CAP - 1>>)
         ELSE UNCHANGED cacheVars
    /\ UNCHANGED <<now, schedVars, msUntilNextRun, connVars, appended,
                   lastHistory, tokenVars, fetch, callVars,
                   dbVars, histVars>>

\* logRetentionCleanup resumes after await rPush(...): lTrim runs; with the
\* client closed meanwhile, redisClient!.lTrim throws a TypeError, which the
\* catch logs, as it does a rejection
LogRetentionCleanupResume ==
    /\ trimPending > 0
    /\ trimPending' = trimPending - 1
    /\ IF redisClient # NULL /\ ~cacheFails
         THEN LTrim(HISTORY_KEY, -HISTORY_CAP, -1)
         ELSE IF redisClient # NULL
           THEN Rejects("lTrim", HISTORY_KEY, <<-HISTORY_CAP, -1>>)
         ELSE UNCHANGED cacheVars
    /\ UNCHANGED <<now, schedVars, msUntilNextRun, connVars, appended,
                   lastHistory, tokenVars, fetch, callVars,
                   dbVars, histVars>>

\* entries.map(JSON.parse) on the texts lRange returned
ParsedEntries(texts) == [i \in 1..Len(texts) |-> JSONParse(texts[i]).num]

\* getRetentionHistory(): [] when not connected and when lRange rejects
GetRetentionHistory ==
    /\ IF IsRedisConnected /\ ~cacheFails
         THEN /\ LRange(HISTORY_KEY, 0, -1)
              /\ lastHistory' =
                     [called |-> TRUE, pending |-> trimPending,
                      entries |-> ParsedEntries(LRangeResult(store[HISTORY_KEY], 0, -1))]
         ELSE /\ lastHistory' = [called |-> TRUE, pending |-> trimPending,
                                 entries |-> <<>>]
              /\ IF IsRedisConnected
                   THEN Rejects("lRange", HISTORY_KEY, <<0, -1>>)
                   ELSE UNCHANGED cacheVars
    /\ UNCHANGED <<now, schedVars, msUntilNextRun, connVars, trimPending,
                   appended, tokenVars, fetch, callVars,
                   dbVars, histVars>>

-----------------------------------------------------------------------------
(* The token ledger.  ledger[id] is the last revocation written to the     *)
(* present store for a token or user id; lastCheck is the last call of one *)
(* of the four functions and how it ended, kept until the clock advances   *)
(* or the backing store goes down or comes back.                           *)

REVOKED == <<"revoked">>

\* Number.prototype.toString() of an integer
RECURSIVE NatToString(_)
NatToString(n) ==
    IF n < 10 THEN <<CharOfNum(n)>>
    ELSE NatToString(n \div 10) \o <<CharOfNum(n % 10)>>
NumberToString(n) == IF n < 0 THEN <<"-">> \o NatToString(-n) ELSE NatToString(n)

NaN == [nan |-> TRUE, n |-> 0]
Num(n) == [nan |-> FALSE, n |-> n]
\* the value of the leading digits of s, after the value acc
RECURSIVE LeadingDigits(_, _)
LeadingDigits(s, acc) ==
    IF s = <<>> \/ ~IsDigit(Head(s)) THEN acc
    ELSE LeadingDigits(Tail(s), 10 * acc + NumOfChar(Head(s)))
\* parseInt(s, 10) after leading blanks and sign: NaN unless a digit follows
ParseDigits(s, sign) ==
    IF s = <<>> \/ ~IsDigit(Head(s)) THEN NaN
    ELSE Num(sign * LeadingDigits(s, 0))
ParseSigned(s) ==
    IF s # <<>> /\ Head(s) = "-" THEN ParseDigits(Tail(s), -1)
    ELSE IF s # <<>> /\ Head(s) = "+" THEN ParseDigits(Tail(s), 1)
    ELSE ParseDigits(s, 1)
RECURSIVE ParseInt(_)
ParseInt(s) ==
    IF s # <<>> /\ IsBlank(Head(s)) THEN ParseInt(Tail(s)) ELSE ParseSigned(s)

\* the inputs of the ledger's callers
SignUpdates == {1000, 2000}
TokenIats == {0, 1, 2}
TokenInstants ==
    {[d |-> dd, ms |-> m] : dd \in {StartDay, StartDay + 1}, m \in CacheSampleMs}

Record(at, ttl, cutoff) == [at |-> at, ttl |-> ttl, cutoff |-> cutoff]
Check(fn, id, iat, ret) == [fn |-> fn, id |-> id, iat |-> iat, ret |-> ret]
\* a call that resolves to undefined, or rejects
Completed(fn, id, raised) == [fn |-> fn, id |-> id, raised |-> raised]

\* the backing store goes down
BackendFails ==
    /\ ~cacheFails
    /\ cacheFails' = TRUE
    /\ lastCheck' = NoCheck
    /\ revoked' = {}
    /\ UNCHANGED <<now, schedVars, msUntilNextRun, cacheVars, redisClient,
                   isConnected, retentionVars, ledger, fetch, callVars,
                   dbVars, histVars>>

\* the backing store comes back
BackendRecovers ==
    /\ cacheFails
    /\ cacheFails' = FALSE
    /\ lastCheck' = NoCheck
    /\ revoked' = {}
    /\ UNCHANGED <<now, schedVars, msUntilNextRun, cacheVars, redisClient,
                   isConnected, retentionVars, ledger, fetch, callVars,
                   dbVars, histVars>>

\* time passes
TokenTick ==
    /\ \E t \in TokenInstants : InstLT(now, t) /\ now' = t
    /\ lastCheck' = NoCheck
    /\ UNCHANGED <<schedVars, msUntilNextRun, cacheVars, connVars,
                   retentionVars, ledger, revoked, fetch, callVars,
                   dbVars, histVars>>

\* blacklistToken(tokenId, expiresInSeconds): returns at once when not
\* connected; a rejection of setEx is caught and logged
BlacklistToken(tokenId, expiresInSeconds) ==
    /\ IF IsRedisConnected /\ ~cacheFails
         THEN /\ SetEx(BlacklistKey(tokenId), expiresInSeconds, REVOKED)
              /\ ledger' = [ledger EXCEPT ![tokenId] = Record(now, expiresInSeconds, 0)]
         ELSE IF IsRedisConnected
           THEN /\ Rejects("setEx", BlacklistKey(tokenId), <<expiresInSeconds, REVOKED>>)
                /\ UNCHANGED ledger
         ELSE UNCHANGED <<cacheVars, ledger>>
    /\ lastCheck' = Completed("blacklistToken", tokenId, FALSE)
    /\ UNCHANGED revoked
    /\ UNCHANGED <<now, schedVars, msUntilNextRun, connVars, retentionVars, fetch, callVars,
                   dbVars, histVars>>

\* mutant: the catch answers true (fail closed)
IsTokenBlacklistedFailClosed(tokenId) ==
    /\ IF IsRedisConnected /\ ~cacheFails
         THEN /\ Get(BlacklistKey(tokenId))
              /\ lastCheck' = Check("isTokenBlacklisted", tokenId, 0,
                     GetResult(store[BlacklistKey(tokenId)], now) # Null)
         ELSE IF IsRedisConnected
           THEN /\ Rejects("get", BlacklistKey(tokenId), <<>>)
                /\ lastCheck' = Check("isTokenBlacklisted", tokenId, 0, TRUE)
         ELSE /\ lastCheck' = Check("isTokenBlacklisted", tokenId, 0, FALSE)
              /\ UNCHANGED cacheVars
    /\ UNCHANGED <<now, schedVars, msUntilNextRun, connVars, retentionVars,
                   ledger, revoked, fetch, callVars,
                   dbVars, histVars>>

\* isTokenBlacklisted(tokenId): result !== null; false when not connected
\* and when get rejects
IsTokenBlacklisted(tokenId) ==
    /\ IF IsRedisConnected /\ ~cacheFails
         THEN /\ Get(BlacklistKey(tokenId))
              /\ lastCheck' = Check("isTokenBlacklisted", tokenId, 0,
                     GetResult(store[BlacklistKey(tokenId)], now) # Null)
         ELSE IF IsRedisConnected
           THEN /\ Rejects("get", BlacklistKey(tokenId), <<>>)
                /\ lastCheck' = Check("isTokenBlacklisted", tokenId, 0, FALSE)
         ELSE /\ lastCheck' = Check("isTokenBlacklisted", tokenId, 0, FALSE)
              /\ UNCHANGED cacheVars
    /\ UNCHANGED <<now, schedVars, msUntilNextRun, connVars, retentionVars,
                   ledger, revoked, fetch, callVars,
                   dbVars, histVars>>

\* invalidateUserTokens(userId, signUpdate): returns at once when not
\* connected; a rejection of setEx is caught and logged
InvalidateUserTokens(userId, signUpdate) ==
    /\ IF IsRedisConnected /\ ~cacheFails
         THEN /\ SetEx(SignUpdateKey(userId), SIGN_UPDATE_TTL, NumberToString(signUpdate))
              /\ ledger' = [ledger EXCEPT ![userId] =
                               Record(now, SIGN_UPDATE_TTL, signUpdate)]
         ELSE IF IsRedisConnected
           THEN /\ Rejects("setEx", SignUpdateKey(userId),
                           <<SIGN_UPDATE_TTL, NumberToString(signUpdate)>>)
                /\ UNCHANGED ledger
         ELSE UNCHANGED <<cacheVars, ledger>>
    /\ lastCheck' = Completed("invalidateUserTokens", userId, FALSE)
    /\ UNCHANGED revoked
    /\ UNCHANGED <<now, schedVars, msUntilNextRun, connVars, retentionVars, fetch, callVars,
                   dbVars, histVars>>

\* what isTokenInvalidatedBySignUpdate returns for the text get returned:
\* false for null and "", else tokenIat * 1000 < parseInt(signUpdate, 10)
Invalidated(signUpdate, tokenIat) ==
    /\ signUpdate # Null
    /\ signUpdate.value # <<>>
    /\ ~ParseInt(signUpdate.value).nan
    /\ tokenIat * 1000 < ParseInt(signUpdate.value).n

\* isTokenInvalidatedBySignUpdate(userId, tokenIat): false when not
\* connected and when get rejects
IsTokenInvalidatedBySignUpdate(userId, tokenIat) ==
    /\ IF IsRedisConnected /\ ~cacheFails
         THEN /\ Get(SignUpdateKey(userId))
              /\ lastCheck' = Check("isTokenInvalidatedBySignUpdate", userId, tokenIat,
                     Invalidated(GetResult(store[SignUpdateKey(userId)], now), tokenIat))
         ELSE /\ lastCheck' = Check("isTokenInvalidatedBySignUpdate", userId,
                                    tokenIat, FALSE)
              /\ IF IsRedisConnected
                   THEN Rejects("get", SignUpdateKey(userId), <<>>)
                   ELSE UNCHANGED cacheVars
    /\ revoked' = (IF lastCheck'.ret THEN revoked \cup {<<userId, tokenIat>>}
                                     ELSE revoked)
    /\ UNCHANGED <<now, schedVars, msUntilNextRun, connVars, retentionVars,
                   ledger, fetch, callVars,
                   dbVars, histVars>>

-----------------------------------------------------------------------------
(* Specifications *)

SchedInit ==
    /\ timers = {}
    /\ schedulerTimeout = NULL
    /\ isRunning = FALSE
    /\ jobs = {}
    /\ nextTimer = 1
    /\ nextJob = 1
    /\ starting = 0
    /\ runNowPending = 0
    /\ stopped = FALSE
    /\ lastRun = "none"

\* the cache module and the fetch tool as loaded: no client, nothing in flight
AppInit ==
    /\ redisClient = NULL
    /\ isConnected = FALSE
    /\ cacheFails = FALSE
    /\ trimPending = 0
    /\ appended = <<>>
    /\ lastHistory = NoHistory
    /\ ledger = EmptyLedger
    /\ lastCheck = NoCheck
    /\ revoked = {}
    /\ fetch = FetchIdle
    /\ getOrSet = GetOrSetIdle
    /\ page = PageIdle
    /\ isInitialized = FALSE
    /\ initDriver = NoDriverCall
    /\ lastStart = NoStart
    /\ lastFireSkipped = FALSE

\* the scheduler: the module as loaded
Init ==
    /\ now = [d |-> StartDay, ms |-> 0]
    /\ SchedInit
    /\ msUntilNextRun = NotProbed
    /\ CacheInit
    /\ AppInit

Next ==
    \/ Tick
    \/ StartSchedulerCall
    \/ StartSchedulerResume
    \/ StopScheduler
    \/ \E t \in timers : TimerFire(t)
    \/ RunNowCall
    \/ RunNowResume
    \/ \E j \in jobs : GenerateLessonResolves(j)
    \/ \E j \in jobs, ok \in BOOLEAN : JobSettles(j, ok)

Spec == Init /\ [][Next]_vars

\* getMillisecondsUntilNextRun probed at one instant out of ProbeInstants
NextRunInit ==
    /\ now \in ProbeInstants
    /\ SchedInit
    /\ msUntilNextRun = NotProbed
    /\ CacheInit
    /\ AppInit

NextRunNext == ProbeNextRun

SpecNextRun == NextRunInit /\ [][NextRunNext]_vars

\* the cache module as loaded, before initRedis()
ModuleInit ==
    /\ now = [d |-> StartDay, ms |-> 0]
    /\ SchedInit
    /\ msUntilNextRun = NotProbed
    /\ store = [k \in AppKeys |-> NoEntry]
    /\ lastSet = [k \in AppKeys |-> NoSet]
    /\ lastOp = NoOp
    /\ AppInit

\* the retention history: one caller, calls made one after the other
RetentionNext ==
    \/ InitRedis
    \/ CloseRedis
    \/ RetentionTick
    \/ \E deletedCount \in NextCounts : LogRetentionCleanupCall(deletedCount)
    \/ LogRetentionCleanupResume
    \/ GetRetentionHistory

SpecRetention == ModuleInit /\ [][RetentionNext]_vars

\* one call of fetchNewsTool.execute and the replies of the three providers
FetchNext ==
    \/ \E topic \in Topics, maxArticles \in 0..MaxMaxArticles,
          newsApiKey \in EnvKeys, gnewsKey \in EnvKeys :
            FetchNewsCall(topic, maxArticles, newsApiKey, gnewsKey)
    \/ ResponseArrives
    \/ FetchRejects
    \/ BodyRejects
    \/ \E data \in NewsApiBodies : NewsApiBodyArrives(data)
    \/ \E data \in GNewsBodies : GNewsBodyArrives(data)
    \/ \E feed \in FeedBodies : FeedArrives(feed)

SpecFetch == ModuleInit /\ [][FetchNext]_vars

\* the token ledger: revocations, queries and the passing of time
TokenNext ==
    \/ InitRedis
    \/ CloseRedis
    \/ TokenTick
    \/ \E tokenId \in TokenIds, ttl \in 1..MaxTtl : BlacklistToken(tokenId, ttl)
    \/ \E tokenId \in TokenIds : IsTokenBlacklisted(tokenId)
    \/ \E userId \in UserIds, signUpdate \in SignUpdates :
          InvalidateUserTokens(userId, signUpdate)
    \/ \E userId \in UserIds, tokenIat \in TokenIats :
          IsTokenInvalidatedBySignUpdate(userId, tokenIat)

SpecTokens == ModuleInit /\ [][TokenNext]_vars

\* the token ledger over a backing store that may go down and come back
OutageNext ==
    \/ TokenNext
    \/ BackendFails
    \/ BackendRecovers

SpecOutage == ModuleInit /\ [][OutageNext]_vars

\* cacheGetOrSet over a store that other callers write to, that expires,
\* and that may be closed or go down while the call is suspended
GetOrSetNext ==
    \/ InitRedis
    \/ CloseRedis
    \/ BackendFails
    \/ BackendRecovers
    \/ CacheTick
    \/ \E k \in CacheKeys, ttl \in 1..MaxTtl, v \in SetValues :
          redisClient # NULL /\ CacheSetEx(k, ttl, v)
    \/ \E key \in CacheKeys, ttlSeconds \in 1..MaxTtl :
          CacheGetOrSetCall(key, ttlSeconds)
    \/ \E outcome \in FetchOutcomes : FetchFnSettles(outcome)

SpecGetOrSet == Init /\ [][GetOrSetNext]_vars

\* one call of fetchArticleContentTool.execute after the other
ContentNext ==
    \/ \E url \in Urls : FetchFullContentCall(url)
    \/ PageResponseArrives
    \/ \E error \in ThrownValues : PageRejects(error)
    \/ \E html \in HtmlPages : HtmlArrives(html)

SpecContent == ModuleInit /\ [][ContentNext]_vars

\* initDriver called with few retries and, by initMemgraph, with the
\* defaults, against a server that answers or not
DriverNext ==
    \/ DriverTick
    \/ \E retries \in 0..MaxRetries, delay \in Delays : InitDriverCall(retries, delay)
    \/ InitMemgraph
    \/ GetServerInfoResolves
    \/ GetServerInfoRejects
    \/ SleepEnds

SpecDriver == ModuleInit /\ [][DriverNext]_vars

\* the scheduler started once and left to its timers: startScheduler() is
\* called on the module as loaded and never again, nothing stops it, and
\* runNow() is not used; a timer fires when due or at any later instant
FirstStartScheduler ==
    /\ nextTimer = 1
    /\ starting = 0
    /\ StartSchedulerCall

DailyNext ==
    \/ Tick
    \/ FirstStartScheduler
    \/ StartSchedulerResume
    \/ \E t \in timers : TimerFire(t)
    \/ \E j \in jobs : GenerateLessonResolves(j)
    \/ \E j \in jobs, ok \in BOOLEAN : JobSettles(j, ok)

SpecDaily == Init /\ [][DailyNext]_vars

-----------------------------------------------------------------------------
(* Properties of the scheduler *)

\* C1: at no time are two executions of generateAndSaveLesson in flight
NoOverlappingJobs == Cardinality(jobs) <= 1

\* C2: once stopScheduler() has returned (no startScheduler() call being in
\* flight) and until the next startScheduler(), the scheduler stays Idle: no
\* step arms a timer
StopLeavesIdle == [][(stopped /\ stopped') => timers' \subseteq timers]_vars

\* C3: at most one timer is pending, and schedulerTimeout is its handle
SingleTimer ==
    /\ Cardinality(timers) <= 1
    /\ \A t \in timers : schedulerTimeout = t.id

\* C4: whenever a timer-driven job settles, resolved or thrown, that step
\* resets isRunning and arms a fresh timer, due in the future, whose handle
\* is stored
RearmAfterRun ==
    [][\A j \in jobs :
         (j.origin = "timer" /\ (\A j2 \in jobs' : j2.id # j.id))
           => /\ isRunning' = FALSE
              /\ \E t \in timers' \ timers :
                   /\ schedulerTimeout' = t.id
                   /\ InstLT(now', t.due)]_vars

\* C4 witness: a timer-driven job threw, and the scheduler is armed again
RearmAfterFailedRun ==
    /\ lastRun = "threw"
    /\ ~isRunning
    /\ \E t \in timers : t.id = schedulerTimeout /\ InstLT(now, t.due)

\* C24: a startScheduler() call that resumes with no connection to the
\* database established arms a timer all the same and stores its handle,
\* and a timer that fires while there is no connection (and no job running)
\* starts the job
StartupArmsWithoutConnection ==
    [][/\ (starting' < starting /\ ~isInitialized')
            => \E t \in timers' \ timers : schedulerTimeout' = t.id
       /\ \A t \in timers \ timers' :
            (schedulerTimeout' = schedulerTimeout /\ ~isInitialized /\ ~isRunning)
               => \E j \in jobs' \ jobs : j.origin = "timer" /\ isRunning']_vars

\* C24 witness: with no connection ever established, the armed timer has
\* fired and the job it started is in flight
JobAttemptedWithoutConnection ==
    /\ ~isInitialized
    /\ runNowPending = 0
    /\ \E j \in jobs : j.origin = "timer"
    /\ lastStart # NoStart

\* startScheduler() has returned since the module was loaded or last stopped
Started == ~stopped /\ starting = 0 /\ nextTimer > 1

\* C26: while the scheduler is started and not stopped there is a pending
\* timer, or isRunning is set and a timer-driven job is in flight (whose
\* callback re-arms when the job settles, as RearmAfterRun states); so a
\* callback that returns at once because isRunning is set leaves a job
\* behind that will arm the next trigger
TriggerNeverLost ==
    Started => \/ timers # {}
               \/ isRunning /\ \E j \in jobs : j.origin = "timer"

\* C26 witness: the scheduler is started, the last timer to fire was
\* skipped because isRunning was set, and no timer is pending
SkippedFireLeavesNoTimer ==
    /\ Started
    /\ lastFireSkipped
    /\ timers = {}

-----------------------------------------------------------------------------
(* Properties of initDriver *)

\* C25: a call makes at most retries connection attempts; each attempt
\* after the first begins no sooner than delay after the failure before
\* it, and the call sleeps only while an attempt is left; it returns at
\* the first attempt that succeeds, with isInitialized set; and it throws
\* only after exactly retries attempts, all failed, leaving isInitialized
\* as it was (false, unless an earlier call had set it)
BoundedRetriesFixedDelay ==
    /\ Len(initDriver.startedAt) <= initDriver.retries
    /\ \A k \in 1..(Len(initDriver.startedAt) - 1) :
          InstLE(InstAdd(initDriver.failedAt[k], initDriver.delay),
                 initDriver.startedAt[k + 1])
    /\ initDriver.pc = "sleep"
          => /\ Len(initDriver.failedAt) < initDriver.retries
             /\ initDriver.wakeAt =
                   InstAdd(initDriver.failedAt[Len(initDriver.failedAt)], initDriver.delay)
    /\ initDriver.pc = "returned"
          => /\ isInitialized
             /\ Len(initDriver.failedAt) = Len(initDriver.startedAt) - 1
    /\ initDriver.pc = "threw"
          => /\ Len(initDriver.startedAt) = initDriver.retries
             /\ Len(initDriver.failedAt) = initDriver.retries
             /\ isInitialized = initDriver.wasInitialized

\* C25 witness: initMemgraph() threw after five failed attempts, on a
\* module that never connected
DefaultRetriesExhausted ==
    /\ initDriver.pc = "threw"
    /\ initDriver.retries = DEFAULT_RETRIES
    /\ Len(initDriver.failedAt) = DEFAULT_RETRIES
    /\ ~isInitialized

-----------------------------------------------------------------------------
(* Properties of the next-run computation *)

\* the local (UTC+8) wall clock of an instant, as day number and millisecond
LocalClock(t) == InstAdd(t, PHT_OFFSET_HOURS * HourMs)
TriggerMsOfDay == SCHEDULED_HOUR * HourMs + SCHEDULED_MINUTE * MinuteMs
PastTrigger(t) == LocalClock(t).ms >= TriggerMsOfDay

\* C5: probed at or past 03:00 local, the delay is more than 0 and at most
\* 24 hours, and now + delay is 03:00 local on the following local day
NextRunWithinADay ==
    (msUntilNextRun.probed /\ PastTrigger(now)) =>
        /\ msUntilNextRun.ms > 0
        /\ msUntilNextRun.ms <= DayMs
        /\ LocalClock(InstAdd(now, msUntilNextRun.ms))
             = [d |-> LocalClock(now).d + 1, ms |-> TriggerMsOfDay]

\* C5 witness: probed exactly at 03:00 local, the delay is the full 24 hours
NextRunFullDay ==
    /\ msUntilNextRun.probed
    /\ LocalClock(now).ms = TriggerMsOfDay
    /\ msUntilNextRun.ms = DayMs

IsLeapYear(y) == (y % 4 = 0 /\ y % 100 # 0) \/ y % 400 = 0
DaysInMonth(y, m0) ==
    IF m0 = 1 THEN (IF IsLeapYear(y) THEN 29 ELSE 28)
    ELSE IF m0 \in {3, 5, 8, 10} THEN 30 ELSE 31
\* the calendar day after a year / 0-based month / day
NextCivilDay(c) ==
    IF c.day < DaysInMonth(c.year, c.month)
      THEN [year |-> c.year, month |-> c.month, day |-> c.day + 1]
    ELSE IF c.month < 11
      THEN [year |-> c.year, month |-> c.month + 1, day |-> 1]
    ELSE [year |-> c.year + 1, month |-> 0, day |-> 1]

\* C6: the target now + delay reads 03:00:00.000 on the local clock; its
\* local calendar date is today's when the local hour:minute the function
\* read is before 03:00 and the next calendar day's (month and year rolling
\* over) otherwise
NextRunTargetDate ==
    msUntilNextRun.probed =>
        LET target == LocalClock(InstAdd(now, msUntilNextRun.ms))
            read == msUntilNextRun.phtAt
            today == CivilFromDays(LocalClock(read).d)
        IN  /\ target.ms = TriggerMsOfDay
            /\ CivilFromDays(target.d)
                 = (IF PastTrigger(read) THEN NextCivilDay(today) ELSE today)

\* C6 witness: probed after 03:00 local on a 31 December, the target is on
\* 1 January
NextRunRollsOver ==
    /\ msUntilNextRun.probed
    /\ LET today == CivilFromDays(LocalClock(now).d)
       IN  /\ today.month = 11 /\ today.day = 31
           /\ PastTrigger(now)
           /\ CivilFromDays(LocalClock(InstAdd(now, msUntilNextRun.ms)).d).month = 0

-----------------------------------------------------------------------------
(* The cache on its own: one client, calls and the passing of time *)

CacheNext ==
    \/ CacheTick
    \/ \E k \in CacheKeys : CacheGet(k)
    \/ \E k \in CacheKeys, ttl \in 1..MaxTtl, v \in SetValues : CacheSetEx(k, ttl, v)
    \/ \E p \in KeyPatterns : CacheKeysMatching(p)
    \/ \E ks \in (SUBSET CacheKeys) \ {{}} : CacheDel(ks)
    \/ \E k \in CacheKeys, r \in RangeArgs : CacheLRange(k, r[1], r[2])
    \/ \E k \in CacheKeys, v \in PushValues : CacheRPush(k, v)
    \/ \E k \in CacheKeys, r \in RangeArgs : CacheLTrim(k, r[1], r[2])

SpecCache == Init /\ [][CacheNext]_vars

-----------------------------------------------------------------------------
(* Properties of the cache.  A step with now' = now is one cache call, and *)
(* lastOp' is that call; store is the Map before it and store' after it.   *)

\* C7: get(key) on an entry whose expiry instant is at or before the current
\* time returns miss
ExpiredEntryIsMiss ==
    [][\A k \in CacheKeys :
         (/\ now' = now
          /\ lastOp'.op = "get" /\ lastOp'.key = k
          /\ store[k] # NoEntry
          /\ InstLE(store[k].expires, now))
           => lastOp'.ret = Null]_vars

\* C8: get(k) at the instant of setEx(k, t, v) returns v; get(k) once t
\* seconds have passed since that setEx returns miss and removes the entry
\* (so no later keys("*") lists k)
SetThenGet ==
    [][\A k \in CacheKeys :
         (/\ now' = now
          /\ lastOp'.op = "get" /\ lastOp'.key = k
          /\ lastSet[k] # NoSet)
           => /\ now = lastSet[k].at => lastOp'.ret = Value(lastSet[k].value)
              /\ InstLE(InstAdd(lastSet[k].at, lastSet[k].ttl * 1000), now)
                   => (lastOp'.ret = Null /\ store'[k] = NoEntry)]_vars

\* C9: on a key whose entry has expired, lRange returns the empty sequence
\* and rPush leaves a list holding the pushed value alone
ListOpsSkipExpired ==
    [][\A k \in CacheKeys :
         (/\ now' = now
          /\ lastOp'.key = k
          /\ store[k] # NoEntry
          /\ InstLT(store[k].expires, now))
           => /\ lastOp'.op = "lRange" => lastOp'.ret = <<>>
              /\ (lastOp'.op = "rPush" /\ lastOp'.ret = Null)
                   => Len(ListOf(store'[k])) = 1]_vars

\* 0-based position of a start index in a list of len elements
FirstIndex(start, len) ==
    IF start >= 0 THEN start ELSE IF len + start > 0 THEN len + start ELSE 0
\* the elements of arr at the 0-based positions first..last
Between(arr, first, last) ==
    [i \in 1..(IF last >= first THEN last - first + 1 ELSE 0) |-> arr[first + i]]
\* the elements of arr from a start index through the end
FromStart(arr, start) ==
    Between(arr, FirstIndex(start, Len(arr)), Len(arr) - 1)
Texts(arr) == [i \in 1..Len(arr) |-> <<CharOfNum(arr[i])>>]
IsList(entry) ==
    entry # NoEntry /\ JSONParse(entry.value).ok /\ JSONParse(entry.value).isArray

\* C10 as stated: with any negative stop, lRange returns and lTrim keeps the
\* elements from start through the end of the list, and lTrim with stop -1
\* leaves the stored list as it was
NegativeStopMeansToEnd ==
    [][\A k \in CacheKeys :
         (/\ now' = now
          /\ lastOp'.op \in {"lRange", "lTrim"} /\ lastOp'.key = k
          /\ lastOp'.args[2] < 0
          /\ IsList(store[k]))
           => LET arr == ListOf(store[k])
                  start == lastOp'.args[1]
              IN  /\ lastOp'.op = "lRange" => lastOp'.ret = Texts(FromStart(arr, start))
                  /\ lastOp'.op = "lTrim" => ListOf(store'[k]) = FromStart(arr, start)
                  /\ (lastOp'.op = "lTrim" /\ lastOp'.args[2] = -1)
                       => ListOf(store'[k]) = arr]_vars

\* C10 amended: stop -1 means through the end of the list, any other
\* negative stop -n ends at the n-th element from the end, and
\* lTrim(key, 0, -1) leaves the stored list as it was
StopMinusOneMeansToEnd ==
    [][\A k \in CacheKeys :
         (/\ now' = now
          /\ lastOp'.op \in {"lRange", "lTrim"} /\ lastOp'.key = k
          /\ lastOp'.args[2] < 0
          /\ IsList(store[k]))
           => LET arr == ListOf(store[k])
                  start == lastOp'.args[1]
                  stop == lastOp'.args[2]
                  kept == IF stop = -1 THEN FromStart(arr, start)
                          ELSE Between(arr, FirstIndex(start, Len(arr)), Len(arr) + stop)
              IN  /\ lastOp'.op = "lRange" => lastOp'.ret = Texts(kept)
                  /\ lastOp'.op = "lTrim" => ListOf(store'[k]) = kept
                  /\ (lastOp'.op = "lTrim" /\ start = 0 /\ stop = -1)
                       => ListOf(store'[k]) = arr]_vars

\* C10 witness: lTrim(key, 0, -1) has run on a list of three elements, which
\* are all still stored
TrimZeroMinusOneKeepsAll ==
    /\ lastOp.op = "lTrim"
    /\ lastOp.args = <<0, -1>>
    /\ Len(ListOf(store[lastOp.key])) = 3

\* C12: rPush leaves the list that was stored followed by the pushed value,
\* and sets the entry's expiry to now + 30 days; get leaves the value and
\* the expiry of a live entry as they were
AppendAtTailResetsExpiry ==
    [][\A k \in CacheKeys :
         (now' = now /\ lastOp'.key = k)
           => /\ (lastOp'.op = "rPush" /\ lastOp'.ret = Null)
                   => /\ store'[k] # NoEntry
                      /\ ListOf(store'[k])
                           = ListOf(store[k]) \o <<JSONParse(lastOp'.args[1]).num>>
                      /\ store'[k].expires = ListExpiry(now)
              /\ (/\ lastOp'.op = "get"
                  /\ store[k] # NoEntry
                  /\ InstLT(now, store[k].expires))
                   => store'[k] = store[k]]_vars

\* C12 witness: a value was pushed onto a list of two, later than the
\* instant the clock started at, and the entry expires 30 days from now
PushedOntoExistingList ==
    /\ lastOp.op = "rPush"
    /\ lastOp.ret = Null
    /\ now.ms > 0
    /\ Len(ListOf(store[lastOp.key])) = 3
    /\ store[lastOp.key].expires = ListExpiry(now)

\* C13: on a key that is absent or whose value is no JSON array, lRange
\* returns the empty sequence and lTrim returns normally with the whole Map
\* as it was; and lRange, rPush and lTrim on one key leave the entry of
\* every other key as it was
ListOpsTolerateCorrupt ==
    [][\A k \in CacheKeys :
         (/\ now' = now
          /\ lastOp'.key = k
          /\ lastOp'.op \in {"lRange", "rPush", "lTrim"})
           => /\ \A k2 \in CacheKeys \ {k} : store'[k2] = store[k2]
              /\ ~IsList(store[k])
                   => /\ lastOp'.op = "lRange" => lastOp'.ret = <<>>
                      /\ lastOp'.op = "lTrim"
                           => (lastOp'.ret = Null /\ store' = store)]_vars

\* C13 witness: lTrim has run on a key whose value is no JSON array
TrimOnCorruptEntry ==
    /\ lastOp.op = "lTrim"
    /\ store[lastOp.key] # NoEntry
    /\ ~IsList(store[lastOp.key])

-----------------------------------------------------------------------------
(* Properties of the fetch chain *)

Rank(p) == IF p = "A" THEN 1 ELSE IF p = "B" THEN 2 ELSE 3
Requested(p) == \E i \in 1..Len(fetch.requests) : fetch.requests[i] = p
\* the provider was skipped or failed
Exhausted(p) == fetch.status[p] \in {"skipped", "threw", "network", "parse", "refused"}
\* the provider's structural success signal
StructuralSuccess(p) ==
    /\ fetch.bodies[p] # NoData
    /\ IF p = "A" THEN fetch.bodies[p].status = "ok"
       ELSE IF p = "B" THEN fetch.bodies[p].hasArticles
       ELSE TRUE
\* the result carries the titles and urls of the body's articles, in order,
\* a missing one as the empty text
CarriesArticlesOf(data) ==
    /\ Len(fetch.result.articles) = Len(data.articles)
    /\ \A i \in 1..Len(data.articles) :
         /\ fetch.result.articles[i].title = Text(data.articles[i].title.text)
         /\ fetch.result.articles[i].url = Text(data.articles[i].url.text)

ProvidersInOrder ==
    /\ Cardinality(fetch.pending) <= 1
    /\ \A i, j \in 1..Len(fetch.requests) :
         i < j => Rank(fetch.requests[i]) < Rank(fetch.requests[j])
    /\ Requested("A") => Truthy(fetch.newsApiKey)
    /\ Requested("B") => Truthy(fetch.gnewsKey)
    /\ \A p, q \in Providers : (Requested(p) /\ Rank(q) < Rank(p)) => Exhausted(q)
    /\ (/\ fetch.bodies["A"] # NoData /\ fetch.bodies["A"].status # "ok"
        /\ fetch.bodies["B"] # NoData /\ fetch.bodies["B"].hasArticles)
         => /\ fetch.pc = "done"
            /\ CarriesArticlesOf(fetch.bodies["B"])
            /\ ~Requested("C")

\* C15 witness: A answered with a non-ok status, B with articles, and the
\* call returned them
FellBackToSecond ==
    /\ fetch.pc = "done"
    /\ fetch.requests = <<"A", "B">>
    /\ fetch.status["A"] = "refused"
    /\ Len(fetch.result.articles) = 2

\* C16: the call never rejects; when every provider was skipped or failed
\* it returns {articles: [], totalResults: 0, query: topic}
NeverRaises ==
    fetch.pc = "done" =>
        /\ ~fetch.result.raised
        /\ (\A p \in Providers : Exhausted(p))
             => fetch.result = [raised |-> FALSE, articles |-> <<>>,
                                totalResults |-> 0, query |-> fetch.topic]

\* C16 witness: no credential is configured, the feed request failed, and
\* the call returned the empty result
AllProvidersFailed ==
    /\ fetch.pc = "done"
    /\ ~Truthy(fetch.newsApiKey) /\ ~Truthy(fetch.gnewsKey)
    /\ fetch.status["C"] = "network"
    /\ fetch.result.articles = <<>> /\ fetch.result.totalResults = 0

\* the k-th smallest member of a set of numbers
Kth(S, k) == CHOOSE i \in S : Cardinality({j \in S : j <= i}) = k
\* the feed items the fallback was given, and those with a title and a link
FeedItems == fetch.bodies["C"].items
WithTitleAndLink == {i \in 1..Len(FeedItems) : FeedItems[i].title # "none" /\ FeedItems[i].link}
FeedParsed == fetch.pc = "done" /\ fetch.bodies["C"] # NoData

\* C17: the fallback returns the first maxArticles items that have a title
\* and a link (all of them when there are fewer), in document order; the
\* loop goes no further than the item that completes them; totalResults is
\* the number returned
FeedCappedInOrder ==
    FeedParsed =>
        /\ Len(fetch.result.articles) = Min(fetch.maxArticles, Cardinality(WithTitleAndLink))
        /\ Len(fetch.result.articles) <= fetch.maxArticles
        /\ \A k \in 1..Len(fetch.result.articles) :
             /\ fetch.result.articles[k].title
                  = Text(<<"T", CharOfNum(Kth(WithTitleAndLink, k))>>)
             /\ fetch.result.articles[k].url
                  = Text(<<"L", CharOfNum(Kth(WithTitleAndLink, k))>>)
        /\ fetch.result.totalResults = Len(fetch.result.articles)
        /\ fetch.examined =
             (IF fetch.maxArticles = 0 THEN 0
              ELSE IF Cardinality(WithTitleAndLink) >= fetch.maxArticles
                THEN Kth(WithTitleAndLink, fetch.maxArticles)
              ELSE Len(FeedItems))

\* C17 witness: a feed of three well-formed items was read with
\* maxArticles = 2, and two articles were returned
TwoOfThreeItems ==
    /\ FeedParsed
    /\ fetch.maxArticles = 2
    /\ Len(FeedItems) = 3
    /\ \A i \in 1..3 : FeedItems[i] = Item("plain", TRUE, TRUE, TRUE)
    /\ Len(fetch.result.articles) = 2

\* the feed items that have a title or a link
WithTitleOrLink == {i \in 1..Len(FeedItems) : FeedItems[i].title # "none" \/ FeedItems[i].link}

\* C18: the fallback returns the first maxArticles items that have a title
\* or a link, the missing one of the two as the empty text; items with
\* neither are passed over and not counted
FeedSkipsOnlyEmptyItems ==
    FeedParsed =>
        /\ Len(fetch.result.articles) = Min(fetch.maxArticles, Cardinality(WithTitleOrLink))
        /\ \A k \in 1..Len(fetch.result.articles) :
             LET i == Kth(WithTitleOrLink, k)
             IN  /\ fetch.result.articles[k].title
                      = (IF FeedItems[i].title # "none"
                           THEN Text(<<"T", CharOfNum(i)>>) ELSE Text(<<>>))
                 /\ fetch.result.articles[k].url
                      = (IF FeedItems[i].link
                           THEN Text(<<"L", CharOfNum(i)>>) ELSE Text(<<>>))

-----------------------------------------------------------------------------
(* Properties of the token ledger *)

\* the record is live: less than its ttl has passed since it was written
Live(rec) == rec # NoRecord /\ InstLT(now, InstAdd(rec.at, rec.ttl * 1000))

\* C19: isTokenBlacklisted(tokenId) answers true exactly while less than
\* ttlSeconds have passed since the token was last blacklisted on the
\* connected cache, and false for a token that was not blacklisted
BlacklistedUntilTtl ==
    lastCheck.fn = "isTokenBlacklisted"
        => lastCheck.ret = Live(ledger[lastCheck.id])

\* C20: isTokenInvalidatedBySignUpdate(userId, tokenIat) answers true
\* exactly when the user has a live cutoff record (written less than 24
\* hours ago) and tokenIat * 1000 is less than the cutoff
InvalidatedIffBeforeLiveCutoff ==
    lastCheck.fn = "isTokenInvalidatedBySignUpdate"
        => lastCheck.ret = (/\ Live(ledger[lastCheck.id])
                            /\ lastCheck.iat * 1000 < ledger[lastCheck.id].cutoff)

\* the cache backend is unavailable: never initialised, closed, or down
Unavailable == ~IsRedisConnected \/ cacheFails

\* C21: a call made while the cache backend is unavailable answers false if
\* it is isTokenBlacklisted or isTokenInvalidatedBySignUpdate, returns
\* without raising if it is blacklistToken or invalidateUserTokens, and
\* leaves the Map and the ledger as they were
RevocationFailsOpen ==
    [][(Unavailable /\ lastCheck'.fn # "none")
         => /\ lastCheck'.fn \in {"isTokenBlacklisted", "isTokenInvalidatedBySignUpdate"}
                 => lastCheck'.ret = FALSE
            /\ lastCheck'.fn \in {"blacklistToken", "invalidateUserTokens"}
                 => ~lastCheck'.raised
            /\ store' = store
            /\ ledger' = ledger]_vars

\* C21 witness: a token with a live blacklist entry is reported not
\* blacklisted while the backing store is down
LiveEntryMissedInOutage ==
    /\ IsRedisConnected
    /\ cacheFails
    /\ lastCheck.fn = "isTokenBlacklisted"
    /\ Live(ledger[lastCheck.id])
    /\ lastCheck.ret = FALSE

\* C29: while the cache stays connected, a token that
\* isTokenInvalidatedBySignUpdate has once reported invalidated is reported
\* so by every later call made while the user's latest cutoff record is
\* live, whatever invalidateUserTokens calls came in between
RevocationMonotonic ==
    (/\ lastCheck.fn = "isTokenInvalidatedBySignUpdate"
     /\ <<lastCheck.id, lastCheck.iat>> \in revoked
     /\ Live(ledger[lastCheck.id]))
        => lastCheck.ret

-----------------------------------------------------------------------------
(* Properties of cacheGetOrSet *)

LastOutcome == getOrSet.outcomes[Len(getOrSet.outcomes)]

\* C22: a finished call that was no cache hit settles as its last fetchFn
\* invocation did: it returns the value fetchFn produced, whatever cache
\* step threw or was skipped, and rejects only if fetchFn rejected
GetOrSetFailsOnlyWithFetchFn ==
    (getOrSet.pc = "done" /\ ~getOrSet.hit)
        => /\ getOrSet.outcomes # <<>>
           /\ getOrSet.result = LastOutcome

\* C22 witness: a cache step of the call threw and the call returned a
\* value of fetchFn
ReturnedDespiteCacheError ==
    /\ getOrSet.pc = "done"
    /\ getOrSet.cacheThrew
    /\ getOrSet.result \in FetchValues

\* C28: a call invokes fetchFn at most once: not at all on a cache hit,
\* and exactly once otherwise
FetchFnInvokedAtMostOnce ==
    /\ getOrSet.calls <= 1
    /\ getOrSet.pc = "done" => getOrSet.calls = (IF getOrSet.hit THEN 0 ELSE 1)

-----------------------------------------------------------------------------
(* Properties of fetchArticleContentTool *)

\* C23: a finished call has returned a result: after a rejection of fetch
\* or of response.text(), success = false with empty title and content and
\* an error string; otherwise success = true with a content of at most
\* 5000 characters
NeverThrowsAndCapsContent ==
    page.pc = "done"
        => /\ page.result # Raised
           /\ page.thrown # NoData
                => /\ ~page.result.success
                   /\ page.result.title = <<>>
                   /\ page.result.content = <<>>
                   /\ page.result.error.some
           /\ page.thrown = NoData
                => /\ page.result.success
                   /\ Chars(page.result.content) <= CONTENT_CAP

\* C23 witness: a page whose article is longer than 5000 characters came
\* back cut to 5000
LongArticleCut ==
    /\ page.pc = "done"
    /\ page.result.success
    /\ Chars(page.result.content) = CONTENT_CAP
    /\ Chars(ArticleOr(Stripped(page.html))) > CONTENT_CAP

-----------------------------------------------------------------------------
(* Properties of the retention history *)

\* the last n elements of a sequence (all of it when it is shorter)
LastN(seq, n) == SubSeq(seq, Max(Len(seq) - n, 0) + 1, Len(seq))

\* C11: with every append followed by its trim (no call suspended between
\* the two), getRetentionHistory returns the last 100 appended values in
\* append order, and all of them while no more than 100 were appended
HistoryKeepsLastHundred ==
    (lastHistory.called /\ lastHistory.pending = 0)
        => lastHistory.entries = LastN(appended, HISTORY_CAP)

\* C11 witness: more than 100 values were appended and the history read
\* afterwards has 100 entries
HistoryReadAfterOverflow ==
    /\ lastHistory.called
    /\ lastHistory.pending = 0
    /\ Len(appended) > HISTORY_CAP
    /\ Len(lastHistory.entries) = HISTORY_CAP

\* C27: whatever calls are suspended between their append and their trim,
\* getRetentionHistory returns at most 100 entries, and they are the most
\* recently appended values in append order
HistoryNeverOverCap ==
    lastHistory.called
        => /\ Len(lastHistory.entries) <= HISTORY_CAP
           /\ lastHistory.entries = LastN(appended, Len(lastHistory.entries))

-----------------------------------------------------------------------------
(* Properties of the daily run *)

\* C30: started once, with timers that fire when due or later, a
\* timer-driven job starts on a later local (UTC+8) calendar day than the
\* timer-driven job before it
OneStartPerLocalDay ==
    [][((\E j \in jobs' : j.origin = "timer" /\ j.id = nextJob /\ nextJob' > nextJob)
        /\ lastStart # NoStart)
          => LocalClock(lastStart).d < LocalClock(now).d]_vars

=============================================================================
